---- MODULE Spec2Model ----
(***************************************************************************)
(* Document sessions of the PDF editor API: the session store, the shared  *)
(* document handle, the request handlers of api/routes/documents.py and    *)
(* the Navigation Manager's read-modify-write of the table of contents.    *)
(*                                                                         *)
(* Every route is an `async def` run on one event loop, so a handler is    *)
(* atomic between two of its `await`s.  A handler without an `await` is    *)
(* one action; a handler that awaits the upload read is two actions, a     *)
(* Begin (everything before the await) and a Resume (everything after),    *)
(* with the request parked in `inflight` in between.  The HTTP status a     *)
(* handler answers with is a function of the state it runs in and of its   *)
(* arguments: each route has a _status operator beside its action.         *)
(*                                                                         *)
(* api/deps.py (the session store) and the Page Manipulator are not part   *)
(* of the sources at hand; their operations are modelled from the design   *)
(* document and are marked so in the model map.                            *)
(***************************************************************************)
EXTENDS Integers, Sequences, FiniteSets, TLC

\* ------------------------------------------------------------- bounds
MaxSessions == 2      \* session ids ever generated
MaxPages    == 2      \* pages a document handle may reach
MaxInflight == 2      \* requests parked on an upload read at once
MaxTime     == 2      \* clock ticks
MaxToc      == 2      \* entries of a table of contents
MaxAnnots   == 1      \* annotations on one page
PageSize    == 2      \* width and height of a page's media box, in points

\* Idle threshold of the reaper, in clock ticks (configuration of api/deps.py).
IdleThreshold == 1

SessionIds == 1..MaxSessions
MaxClock == 4         \* the clock of the middleware stops here
requests_limit == 2   \* RateLimitMiddleware.requests_limit
window_seconds == 2   \* RateLimitMiddleware.window_seconds

\* ------------------------------------------------------------- strings
\* Font names are strings of characters, written character by character.

\* str.lower() on the letters that occur.
ToLower(c) ==
    CASE c = "A" -> "a"
      [] c = "B" -> "b"
      [] c = "C" -> "c"
      [] c = "D" -> "d"
      [] c = "F" -> "f"
      [] c = "G" -> "g"
      [] c = "H" -> "h"
      [] c = "I" -> "i"
      [] c = "M" -> "m"
      [] c = "N" -> "n"
      [] c = "O" -> "o"
      [] c = "P" -> "p"
      [] c = "R" -> "r"
      [] c = "S" -> "s"
      [] c = "T" -> "t"
      [] c = "U" -> "u"
      [] c = "V" -> "v"
      [] c = "Z" -> "z"
      [] OTHER -> c
Lower(str) == [i \in 1..Len(str) |-> ToLower(str[i])]

\* str.replace(c, "") for a character c, and the `in` of two strings.
Without(str, c) == SelectSeq(str, LAMBDA x : x # c)
Contains(str, sub) ==
    \E i \in 0..(Len(str) - Len(sub)) : SubSeq(str, i + 1, i + Len(sub)) = sub

\* ------------------------------------------------------------- fonts
\* TextProcessor.BUILTIN_FONTS, in the order of the list.
BUILTIN_FONTS ==
    << <<"T", "i", "m", "e", "s", "-", "R", "o", "m", "a", "n">>,
       <<"T", "i", "m", "e", "s", "-", "B", "o", "l", "d">>,
       <<"T", "i", "m", "e", "s", "-", "I", "t", "a", "l", "i", "c">>,
       <<"T", "i", "m", "e", "s", "-", "B", "o", "l", "d", "I", "t", "a", "l", "i", "c">>,
       <<"H", "e", "l", "v", "e", "t", "i", "c", "a">>,
       <<"H", "e", "l", "v", "e", "t", "i", "c", "a", "-", "B", "o", "l", "d">>,
       <<"H", "e", "l", "v", "e", "t", "i", "c", "a", "-", "O", "b", "l", "i", "q", "u", "e">>,
       <<"H", "e", "l", "v", "e", "t", "i", "c", "a", "-", "B", "o", "l", "d", "O", "b", "l", "i", "q", "u", "e">>,
       <<"C", "o", "u", "r", "i", "e", "r">>,
       <<"C", "o", "u", "r", "i", "e", "r", "-", "B", "o", "l", "d">>,
       <<"C", "o", "u", "r", "i", "e", "r", "-", "O", "b", "l", "i", "q", "u", "e">>,
       <<"C", "o", "u", "r", "i", "e", "r", "-", "B", "o", "l", "d", "O", "b", "l", "i", "q", "u", "e">>,
       <<"S", "y", "m", "b", "o", "l">>,
       <<"Z", "a", "p", "f", "D", "i", "n", "g", "b", "a", "t", "s">> >>

\* TextProcessor.FONT_SUBSTITUTIONS, in the order of the dictionary: the key
\* and the built-in font it stands for.
FONT_SUBSTITUTIONS ==
    << <<<<"t", "i", "m", "e", "s">>, BUILTIN_FONTS[1]>>,
       <<<<"t", "i", "m", "e", "s", "n", "e", "w", "r", "o", "m", "a", "n">>, BUILTIN_FONTS[1]>>,
       <<<<"a", "r", "i", "a", "l">>, BUILTIN_FONTS[5]>>,
       <<<<"h", "e", "l", "v", "e", "t", "i", "c", "a">>, BUILTIN_FONTS[5]>>,
       <<<<"c", "o", "u", "r", "i", "e", "r">>, BUILTIN_FONTS[9]>>,
       <<<<"c", "o", "u", "r", "i", "e", "r", "n", "e", "w">>, BUILTIN_FONTS[9]>>,
       <<<<"v", "e", "r", "d", "a", "n", "a">>, BUILTIN_FONTS[5]>>,
       <<<<"g", "e", "o", "r", "g", "i", "a">>, BUILTIN_FONTS[1]>>,
       <<<<"p", "a", "l", "a", "t", "i", "n", "o">>, BUILTIN_FONTS[1]>>,
       <<<<"b", "o", "o", "k", "m", "a", "n">>, BUILTIN_FONTS[1]>> >>

\* The first built-in font, from position i of the list on, whose lowercase
\* name without dashes occurs in `normalized` (<<>>: none).
RECURSIVE FirstBuiltin(_, _)
FirstBuiltin(normalized, i) ==
    IF i > Len(BUILTIN_FONTS) THEN <<>>
    ELSE IF Contains(normalized, Without(Lower(BUILTIN_FONTS[i]), "-"))
    THEN BUILTIN_FONTS[i]
    ELSE FirstBuiltin(normalized, i + 1)

\* The value of the first substitution, from position i on, whose key occurs
\* in `normalized` (<<>>: none).
RECURSIVE FirstSubstitution(_, _)
FirstSubstitution(normalized, i) ==
    IF i > Len(FONT_SUBSTITUTIONS) THEN <<>>
    ELSE IF Contains(normalized, FONT_SUBSTITUTIONS[i][1])
    THEN FONT_SUBSTITUTIONS[i][2]
    ELSE FirstSubstitution(normalized, i + 1)

\* text_processor.py 127-162.
TextProcessor_find_best_match_font(font_name) ==
    LET normalized == Without(Without(Lower(font_name), "-"), " ")
        builtin == FirstBuiltin(normalized, 1)
        value == FirstSubstitution(normalized, 1)
        has(w) == Contains(normalized, w)
    IN  IF builtin # <<>> THEN builtin
        ELSE IF value # <<>> THEN value
        ELSE IF has(<<"b", "o", "l", "d">>) /\ has(<<"i", "t", "a", "l", "i", "c">>) THEN BUILTIN_FONTS[8]
        ELSE IF has(<<"b", "o", "l", "d">>) THEN BUILTIN_FONTS[6]
        ELSE IF has(<<"i", "t", "a", "l", "i", "c">>) \/ has(<<"o", "b", "l", "i", "q", "u", "e">>) THEN BUILTIN_FONTS[7]
        ELSE IF has(<<"c", "o", "u", "r", "i", "e", "r">>) \/ has(<<"m", "o", "n", "o">>) THEN BUILTIN_FONTS[9]
        ELSE IF has(<<"t", "i", "m", "e", "s">>) \/ has(<<"s", "e", "r", "i", "f">>) THEN BUILTIN_FONTS[1]
        ELSE BUILTIN_FONTS[5]

\* ------------------------------------------------------------- values
\* Rectangles of the engine (fitz.Rect); the media box of every page.
Rect(x0, y0, x1, y1) == [x0 |-> x0, y0 |-> y0, x1 |-> x1, y1 |-> y1]
MediaBox == Rect(0, 0, PageSize, PageSize)

\* A span of text on a page: its characters and the font it is set in (the
\* redaction of a span leaves a white rectangle: no characters, no font).
Span(w, f) == [word |-> w, font |-> f]

\* A page of the handle: identity of the page it was created from, whether
\* it has no text/images/drawings, its rotation, its annotation count, its
\* crop box and its spans of text, top to bottom.
BlankPage(i) == [id |-> i, blank |-> TRUE,  rot |-> 0, annots |-> 0, cropbox |-> MediaBox,
                 text |-> <<>>]
TextPage(i)  == [id |-> i, blank |-> FALSE, rot |-> 0, annots |-> 0, cropbox |-> MediaBox,
                 text |-> <<Span("old", BUILTIN_FONTS[5])>>]

\* The document handle of a session that was never created, and a closed
\* handle (nothing of a closed handle can be read any more). hid is the
\* identity of the handle object: two records with one hid are one object.
NoDoc == [pages |-> <<>>, toc |-> <<>>, closed |-> TRUE, hid |-> 0]

\* A file of TEMP_DIR: absent, or the bytes of a saved document.
NoFile == [exists |-> FALSE, pages |-> <<>>, toc |-> <<>>]
Bytes(d) == [exists |-> TRUE, pages |-> d.pages, toc |-> d.toc]

\* Upload file names; the storage path is derived from the name alone.
PdfNames == {"a.pdf", "b.pdf"}
Paths    == PdfNames

\* An image file: whether the path exists, whether the engine can open the
\* bytes, and the width and height of the picture.
Image(w, h) == [exists |-> TRUE, readable |-> TRUE, width |-> w, height |-> h]
NoImage == [exists |-> FALSE, readable |-> FALSE, width |-> 0, height |-> 0]

\* No read endpoint has answered yet.
NoResponse == [op |-> "none", sid |-> 0, page_count |-> 0, pages |-> <<>>, toc |-> <<>>]

\* No text replacement has been answered yet.
NoEdit == [op |-> "none", sid |-> 0, page |-> 0, search_text |-> "", status |-> 0,
           raised |-> "none", count |-> 0, has_rects |-> FALSE, rects |-> <<>>,
           matches |-> <<>>, valid_page |-> FALSE, fault |-> "none", mutated |-> FALSE,
           fonts |-> <<>>, old_rect |-> Rect(0, 0, 0, 0), image |-> NoImage,
           maintain_aspect |-> FALSE, points |-> <<>>,
           quads |-> <<>>, divisors |-> <<>>]

\* The client addresses the rate limiter tells apart.
ClientIps == {"10.0.0.1", "10.0.0.2"}

\* The names of the headers of SECURITY_HEADERS.
get_security_headers == {"X-Content-Type-Options", "X-Frame-Options", "X-XSS-Protection",
                         "Referrer-Policy", "Permissions-Policy"}

\* No response has left the middleware stack yet.
NoHttpResponse == [status |-> 0, headers |-> {}, ip |-> "", by |-> "none", recorded |-> FALSE]

\* No add_bookmark has been followed yet.
NoRoundTrip == [phase |-> "none", sid |-> 0, index |-> 0,
                before |-> <<>>, mid |-> <<>>, after |-> <<>>]

VARIABLES
    state,          \* state[s]: "Unborn", "Active", "Expiring", "Destroyed"
    handle,         \* handle[s]: the open document handle of session s
    page_count,     \* page_count[s]: the count cached in the session record
    storage_path,   \* storage_path[s]: the session's file in TEMP_DIR
    last_accessed,  \* last_accessed[s]: time of the last successful lookup
    files,          \* files[p]: content of TEMP_DIR
    next_id,        \* the next session id to generate
    now,            \* the clock
    inflight,       \* the requests suspended on their upload read, oldest first
    deleted,        \* sessions whose DELETE request was answered with success
    rejected,       \* the last operation that refused or skipped a page number,
                    \* or refused a geometry
    round_trip,     \* the last add_bookmark and the delete_bookmark that followed
    temp_files,     \* the insert_<doc_id>_<filename> files present in TEMP_DIR
    upload_status,  \* the status the last upload_document answered with (0: none)
    response,       \* the last answer of a read endpoint: endpoint, session, data
    edit_result,    \* the last answer of replace_text: what the operation
                    \* returned or raised, the matches it had on the page,
                    \* the engine call that raised, whether the handle changed,
                    \* the font names given to find_best_match_font with
                    \* what it returned for them
    shutdown,       \* the lifespan hook has run cleanup_all_sessions
    requests,       \* RateLimitMiddleware._requests: per client IP, the
                    \* timestamps of the requests recorded in the window
    admitted,       \* per client IP, the times of every request that was let
                    \* through to the routes, oldest first
    http_response   \* the last response that left the middleware stack

serverVars == <<shutdown, requests, admitted, http_response>>


vars == <<state, handle, page_count, storage_path, last_accessed, files,
          next_id, now, inflight, deleted, rejected, round_trip,
          temp_files, upload_status, response, edit_result, serverVars>>

nav_history == <<rejected, round_trip>>
io_history == <<upload_status, response, edit_result, serverVars>>
history == <<rejected, round_trip, upload_status, response, edit_result, serverVars>>
route_history == <<rejected, round_trip, upload_status, response, edit_result>>

sessionVars == <<state, handle, page_count, storage_path, last_accessed, files>>

\* ------------------------------------------------------------- sequences
RemoveAt(s, i) == SubSeq(s, 1, i - 1) \o SubSeq(s, i + 1, Len(s))
InsertAt(s, i, xs) == SubSeq(s, 1, i) \o xs \o SubSeq(s, i + 1, Len(s))

\* ------------------------------------------------------------- session store
\* get_session: the id is known and the session is neither being destroyed
\* nor destroyed.
\* A lookup that still finds the record of a session that left Active.
SessionFound_stale(s) == s \in SessionIds /\ state[s] # "Unborn"

SessionFound(s) == s \in SessionIds /\ state[s] = "Active"

\* get_session on success: refresh the last-accessed timestamp.
Touch(la, s) == [la EXCEPT ![s] = now]

\* The engine refuses to save a closed document or one without pages.
CanSave(d) == ~d.closed /\ Len(d.pages) > 0

Init ==
    /\ state = [s \in SessionIds |-> "Unborn"]
    /\ handle = [s \in SessionIds |-> NoDoc]
    /\ page_count = [s \in SessionIds |-> 0]
    /\ storage_path = [s \in SessionIds |-> "a.pdf"]
    /\ last_accessed = [s \in SessionIds |-> 0]
    /\ files = [p \in Paths |-> NoFile]
    /\ next_id = 1
    /\ now = 0
    /\ inflight = <<>>
    /\ deleted = {}
    /\ rejected = "none"
    /\ round_trip = NoRoundTrip
    /\ temp_files = {}
    /\ upload_status = 0
    /\ response = NoResponse
    /\ edit_result = NoEdit
    /\ shutdown = FALSE
    /\ requests = [ip \in ClientIps |-> <<>>]
    /\ admitted = [ip \in ClientIps |-> <<>>]
    /\ http_response = NoHttpResponse

\* ------------------------------------------------------------- inputs
\* Uploaded files: name, size class against MAX_UPLOAD_MB, the pages the
\* engine parses from the bytes (<<>>: the engine cannot parse them) and the
\* exception create_session raises on them.
UploadDocs == { <<TextPage(1)>>, <<TextPage(1), BlankPage(2)>> }
Upload(n, z, p) == [name |-> n, size |-> z, pages |-> p, toc |-> <<>>,
                    raises |-> IF p = <<>> THEN "PDFLoadError" ELSE "none"]
Uploads ==
    { Upload(n, "ok", p) : n \in PdfNames, p \in UploadDocs }
    \cup { Upload("n.txt", "ok", <<TextPage(1)>>), Upload("a.pdf", "empty", <<>>),
           Upload("a.pdf", "big", <<TextPage(1)>>), Upload("a.pdf", "ok", <<>>) }
    \cup { [Upload("a.pdf", "ok", <<TextPage(1)>>) EXCEPT !.raises = e] :
               e \in {"ValueError", "Exception"} }

\* The page of the one-page PDF sent to insert_pages_from_file.
InsertedPage == [id |-> 0, blank |-> FALSE, rot |-> 0, annots |-> 0, cropbox |-> MediaBox,
                 text |-> <<Span("old", BUILTIN_FONTS[5])>>]
\* Files sent to the upload endpoints of a session.
InsertPdfNames == {"i.pdf", "j.pdf"}
InsertNames == InsertPdfNames \cup {"i.txt"}
InsertFiles == {"pdf", "corrupt"}
AttachFiles == {"data", "empty"}

PageArgs == -1..MaxPages

\* Requests parked on session s that will add a page when they resume.
PendingInserts(s) ==
    Cardinality({k \in 1..Len(inflight) :
                    inflight[k].kind = "insert_pages" /\ inflight[k].sid = s})

\* The model's page bound: room for one more page in the handle of s.
RoomForPage(s) == Len(handle[s].pages) + PendingInserts(s) < MaxPages

\* ------------------------------------------------------------- responses
\* get_session raised NotFoundError (404): nothing changes.
NotFound == UNCHANGED vars

\* The handler failed after a successful get_session, before any mutation.
Reject(s) ==
    /\ last_accessed' = Touch(last_accessed, s)
    /\ UNCHANGED <<state, handle, page_count, storage_path, files,
                   next_id, now, inflight, deleted, temp_files, history>>

\* persist_session_document(s) for the handle value d: looks the session up
\* (404), saves the handle to the storage path (the engine's refusal is an
\* unhandled error, 500) and refreshes the record.
PersistStatus(s, d) ==
    IF ~SessionFound(s) THEN 404 ELSE IF CanSave(d) THEN 200 ELSE 500

persist_session_document(s, d, pc) ==
    IF PersistStatus(s, d) = 200
    THEN /\ files' = [files EXCEPT ![storage_path[s]] = Bytes(d)]
         /\ page_count' = [page_count EXCEPT ![s] = Len(d.pages)]
         /\ last_accessed' = Touch(last_accessed, s)
    ELSE /\ page_count' = [page_count EXCEPT ![s] = pc]
         /\ last_accessed' = IF SessionFound(s) THEN Touch(last_accessed, s)
                             ELSE last_accessed
         /\ UNCHANGED files

\* A handler mutated the handle of s into d, set the cached count to pc (or
\* left it) and then called persist_session_document.
Mutate(s, d, pc) ==
    /\ handle' = [handle EXCEPT ![s] = d]
    /\ persist_session_document(s, d, pc)
    /\ UNCHANGED <<state, storage_path, next_id, now, deleted, temp_files>>

\* The same in a handler that never suspends.
Commit(s, d, pc) == Mutate(s, d, pc) /\ UNCHANGED <<inflight, history>>

\* ------------------------------------------------------------- session routes
\* create_session: open the handle, generate the id, store the record.
create_session(id, f) ==
    /\ state' = [state EXCEPT ![id] = "Active"]
    /\ handle' = [handle EXCEPT ![id] = [pages |-> f.pages, toc |-> f.toc, closed |-> FALSE, hid |-> id]]
    /\ page_count' = [page_count EXCEPT ![id] = Len(f.pages)]
    /\ storage_path' = [storage_path EXCEPT ![id] = f.name]
    /\ last_accessed' = [last_accessed EXCEPT ![id] = now]
    /\ next_id' = id + 1

\* Lines 108-125 and 158-178: PDFLoadError and ValueError are answered with
\* 400, any other exception leaves the handler as it is (500).
upload_document_status(f) ==
    IF f.name \notin PdfNames \/ f.size = "empty" THEN 400
    ELSE IF f.size = "big" THEN 413
    ELSE IF f.raises \in {"PDFLoadError", "ValueError"} THEN 400
    ELSE IF f.raises # "none" THEN 500
    ELSE 200

\* upload_document registering a session for bytes it answered 400 to.
upload_document_registers(f) ==
    /\ upload_status' = upload_document_status(f)
    /\ IF f.name \notin PdfNames \/ f.size # "ok"
       THEN UNCHANGED <<sessionVars, next_id>>
       ELSE IF f.raises = "Exception"
       THEN /\ files' = [files EXCEPT ![f.name] = Bytes(f)]
            /\ UNCHANGED <<state, handle, page_count, storage_path, last_accessed, next_id>>
       ELSE /\ next_id <= MaxSessions
            /\ files' = [files EXCEPT ![f.name] = Bytes(f)]
            /\ create_session(next_id, f)
    /\ UNCHANGED <<now, inflight, deleted, temp_files, nav_history, response, edit_result, serverVars>>

\* Lines 104-178.  The temp path upload_<filename> is written, then
\* create_session makes it the storage path of the new session; the two
\* except clauses remove the file.
upload_document(f) ==
    /\ upload_status' = upload_document_status(f)
    /\ IF f.name \notin PdfNames \/ f.size # "ok"
       THEN UNCHANGED <<sessionVars, next_id>>
       ELSE IF f.raises \in {"PDFLoadError", "ValueError"}
       THEN /\ files' = [files EXCEPT ![f.name] = NoFile]
            /\ UNCHANGED <<state, handle, page_count, storage_path, last_accessed, next_id>>
       ELSE IF f.raises # "none"
       THEN /\ files' = [files EXCEPT ![f.name] = Bytes(f)]
            /\ UNCHANGED <<state, handle, page_count, storage_path, last_accessed, next_id>>
       ELSE /\ next_id <= MaxSessions
            /\ files' = [files EXCEPT ![f.name] = Bytes(f)]
            /\ create_session(next_id, f)
    /\ UNCHANGED <<now, inflight, deleted, temp_files, nav_history, response, edit_result, serverVars>>

\* The answer of a read endpoint.
Answer(op, s, pc, pages, toc) ==
    [op |-> op, sid |-> s, page_count |-> pc, pages |-> pages, toc |-> toc]

\* A read endpoint: get_session, then the answer; nothing is persisted.
Inspect(s, answer) ==
    /\ last_accessed' = Touch(last_accessed, s)
    /\ response' = answer
    /\ UNCHANGED <<state, handle, page_count, storage_path, files, next_id, now,
                   inflight, deleted, temp_files, nav_history, upload_status,
                   edit_result, serverVars>>

\* Lines 181-191: the page count of the answer is the cached one.
get_document_info_data(s) == Answer("get_document_info", s, page_count[s], <<>>, <<>>)

get_document_info_status(s) == IF ~SessionFound(s) THEN 404 ELSE 200

\* get_document_info going through the persist step.
get_document_info_persists(s) ==
    IF ~SessionFound(s) THEN NotFound
    ELSE /\ Mutate(s, handle[s], page_count[s])
         /\ response' = get_document_info_data(s)
         /\ UNCHANGED <<inflight, nav_history, upload_status,
                   edit_result, serverVars>>

get_document_info(s) ==
    IF ~SessionFound(s) THEN NotFound ELSE Inspect(s, get_document_info_data(s))

\* Lines 210-213: the cached page count.
get_page_count_data(s) == Answer("get_page_count", s, page_count[s], <<>>, <<>>)

get_page_count(s) ==
    IF ~SessionFound(s) THEN NotFound ELSE Inspect(s, get_page_count_data(s))

\* delete_session: close the handle, delete the storage file, drop the record.
delete_session(s) ==
    /\ state' = [state EXCEPT ![s] = "Destroyed"]
    /\ handle' = [handle EXCEPT ![s] = NoDoc]
    /\ files' = [files EXCEPT ![storage_path[s]] = NoFile]
    /\ page_count' = [page_count EXCEPT ![s] = 0]
    /\ storage_path' = [storage_path EXCEPT ![s] = "a.pdf"]
    /\ last_accessed' = [last_accessed EXCEPT ![s] = 0]

delete_document_status(s) == IF ~SessionFound(s) THEN 404 ELSE 200

\* delete_document answering success without tearing the session down.
delete_document_kept(s) ==
    IF ~SessionFound(s) THEN NotFound
    ELSE /\ deleted' = deleted \cup {s}
         /\ last_accessed' = Touch(last_accessed, s)
         /\ UNCHANGED <<state, handle, page_count, storage_path, files,
                        next_id, now, inflight, temp_files, history>>

delete_document(s) ==
    IF ~SessionFound(s) THEN NotFound
    ELSE /\ delete_session(s)
         /\ deleted' = deleted \cup {s}
         /\ UNCHANGED <<next_id, now, inflight, temp_files, history>>

download_document_status(s) == PersistStatus(s, handle[s])

\* Lines 200-207: persist, then answer with the file at the storage path.
download_document_data(s, fs) ==
    LET file == fs[storage_path[s]]
    IN  Answer("download_document", s, Len(file.pages), file.pages, file.toc)

\* download_document answering with the storage file as it finds it.
download_document_unsaved(s) ==
    IF ~SessionFound(s) THEN NotFound
    ELSE /\ response' = IF download_document_status(s) = 200
                         THEN download_document_data(s, files)
                         ELSE response
         /\ last_accessed' = Touch(last_accessed, s)
         /\ UNCHANGED <<state, handle, page_count, storage_path, files, next_id, now,
                        inflight, deleted, temp_files, nav_history, upload_status,
                   edit_result, serverVars>>

download_document(s) ==
    IF ~SessionFound(s) THEN NotFound
    ELSE /\ Mutate(s, handle[s], page_count[s])
         /\ response' = IF download_document_status(s) = 200
                         THEN download_document_data(s, files')
                         ELSE response
         /\ UNCHANGED <<inflight, nav_history, upload_status,
                   edit_result, serverVars>>

\* ------------------------------------------------------------- page routes
\* Page indices of the engine are 0-based.
ValidPage(d, n) == n >= 0 /\ n < Len(d.pages)

\* Page Manipulator: delete_page(n), rotate_page(n, degrees).
PageManipulator_delete_page(d, n) == [d EXCEPT !.pages = RemoveAt(d.pages, n + 1)]
PageManipulator_rotate_page(d, n, deg) == [d EXCEPT !.pages[n + 1].rot = deg]

delete_page_status(s, n) ==
    IF ~SessionFound(s) THEN 404
    ELSE IF ~ValidPage(handle[s], n) THEN 400
    ELSE PersistStatus(s, PageManipulator_delete_page(handle[s], n))

delete_page(s, n) ==
    IF ~SessionFound(s) THEN NotFound
    ELSE IF ~ValidPage(handle[s], n) THEN Reject(s)
    ELSE Commit(s, PageManipulator_delete_page(handle[s], n), page_count[s])

rotate_page_status(s, n, deg) ==
    IF ~SessionFound(s) THEN 404
    ELSE IF ~ValidPage(handle[s], n) THEN 400
    ELSE PersistStatus(s, PageManipulator_rotate_page(handle[s], n, deg))

\* rotate_page answering success without the persist step.
rotate_page_unsaved(s, n, deg) ==
    IF ~SessionFound(s) THEN NotFound
    ELSE IF ~ValidPage(handle[s], n) THEN Reject(s)
    ELSE /\ handle' = [handle EXCEPT ![s] = PageManipulator_rotate_page(handle[s], n, deg)]
         /\ last_accessed' = Touch(last_accessed, s)
         /\ UNCHANGED <<state, page_count, storage_path, files,
                        next_id, now, inflight, deleted, temp_files, history>>

rotate_page(s, n, deg) ==
    IF ~SessionFound(s) THEN NotFound
    ELSE IF ~ValidPage(handle[s], n) THEN Reject(s)
    ELSE Commit(s, PageManipulator_rotate_page(handle[s], n, deg), page_count[s])

\* insert_at is Optional[int]: {} is None, {k} is the integer k.
InsertAtArgs == {{}} \cup {{k} : k \in -1..(MaxPages + 1)}

\* The copy placed in front of the original when insert_at is not given.
DuplicateTarget_before(d, n, insert_at) ==
    LET t == IF insert_at = {} THEN n ELSE CHOOSE k \in insert_at : TRUE
    IN  IF t < 0 \/ t > Len(d.pages) THEN Len(d.pages) ELSE t

\* Lines 351-353: default n + 1; outside [0, len(doc)] append to the end.
DuplicateTarget(d, n, insert_at) ==
    LET t == IF insert_at = {} THEN n + 1 ELSE CHOOSE k \in insert_at : TRUE
    IN  IF t < 0 \/ t > Len(d.pages) THEN Len(d.pages) ELSE t

\* Lines 361-369: the copy of page n inserted in front of the target.
Duplicated(d, n, insert_at) ==
    [d EXCEPT !.pages = InsertAt(d.pages, DuplicateTarget(d, n, insert_at),
                                 <<d.pages[n + 1]>>)]

\* Lines 378-382: the data of the answer.
duplicate_page_data(s, n, insert_at) ==
    [new_page_count |-> Len(Duplicated(handle[s], n, insert_at).pages),
     inserted_at |-> DuplicateTarget(handle[s], n, insert_at)]

duplicate_page_status(s, n, insert_at) ==
    IF ~SessionFound(s) THEN 404
    ELSE IF ~ValidPage(handle[s], n) THEN 400
    ELSE PersistStatus(s, Duplicated(handle[s], n, insert_at))

duplicate_page(s, n, insert_at) ==
    IF ~SessionFound(s) THEN NotFound
    ELSE IF ~ValidPage(handle[s], n) THEN Reject(s)
    ELSE LET d2 == Duplicated(handle[s], n, insert_at)
         IN  Commit(s, d2, Len(d2.pages))

\* fitz.Rect.width and .height: never negative.
RectWidth(r) == IF r.x1 - r.x0 > 0 THEN r.x1 - r.x0 ELSE 0
RectHeight(r) == IF r.y1 - r.y0 > 0 THEN r.y1 - r.y0 ELSE 0

\* page.rect: the crop box shifted to the origin.
PageRect(pg) == Rect(0, 0, RectWidth(pg.cropbox), RectHeight(pg.cropbox))

\* Lines 462-467: the new crop box from the page rectangle and the margins.
CropRect(pg, left, top, right, bottom) ==
    LET current_rect == PageRect(pg)
    IN  Rect(current_rect.x0 + left, current_rect.y0 + top,
             current_rect.x1 - right, current_rect.y1 - bottom)

\* Lines 470-474.
CropTooLarge(new_rect) == RectWidth(new_rect) <= 0 \/ RectHeight(new_rect) <= 0

\* The engine's set_cropbox raises for a rectangle that is empty or not
\* inside the media box.
EngineAcceptsCropbox(r) ==
    /\ r.x0 < r.x1 /\ r.y0 < r.y1
    /\ r.x0 >= MediaBox.x0 /\ r.y0 >= MediaBox.y0
    /\ r.x1 <= MediaBox.x1 /\ r.y1 <= MediaBox.y1

Cropped(d, n, new_rect) == [d EXCEPT !.pages[n + 1].cropbox = new_rect]

crop_page_status(s, n, left, top, right, bottom) ==
    IF ~SessionFound(s) THEN 404
    ELSE IF ~ValidPage(handle[s], n) THEN 400
    ELSE LET new_rect == CropRect(handle[s].pages[n + 1], left, top, right, bottom)
         IN  IF CropTooLarge(new_rect) THEN 400
             ELSE IF ~EngineAcceptsCropbox(new_rect) THEN 500
             ELSE PersistStatus(s, Cropped(handle[s], n, new_rect))

\* The refusal of a geometry.
RejectGeometry(s, op) ==
    /\ last_accessed' = Touch(last_accessed, s)
    /\ rejected' = op
    /\ UNCHANGED <<state, handle, page_count, storage_path, files, next_id, now,
                   inflight, deleted, temp_files, round_trip, io_history>>

\* crop_page applying the margins without looking at the result.
crop_page_unchecked(s, n, left, top, right, bottom) ==
    IF ~SessionFound(s) THEN NotFound
    ELSE IF ~ValidPage(handle[s], n) THEN Reject(s)
    ELSE LET new_rect == CropRect(handle[s].pages[n + 1], left, top, right, bottom)
         IN  Commit(s, Cropped(handle[s], n, new_rect), page_count[s])

crop_page(s, n, left, top, right, bottom) ==
    IF ~SessionFound(s) THEN NotFound
    ELSE IF ~ValidPage(handle[s], n) THEN Reject(s)
    ELSE LET new_rect == CropRect(handle[s].pages[n + 1], left, top, right, bottom)
         IN  IF CropTooLarge(new_rect) THEN RejectGeometry(s, "crop_page")
             ELSE IF ~EngineAcceptsCropbox(new_rect) THEN Reject(s)
             ELSE Commit(s, Cropped(handle[s], n, new_rect), page_count[s])

\* Lines 580-599: the indices of the blank pages, collected from the last
\* page down, each then deleted in that order.
RECURSIVE DeletePages(_, _)
DeletePages(pages, idx) ==
    IF idx = <<>> THEN pages
    ELSE DeletePages(RemoveAt(pages, Head(idx) + 1), Tail(idx))

RECURSIVE BlankIndices(_, _)
BlankIndices(pages, n) ==
    IF n < 0 THEN <<>>
    ELSE (IF pages[n + 1].blank THEN <<n>> ELSE <<>>) \o BlankIndices(pages, n - 1)

WithoutBlanks(d) ==
    [d EXCEPT !.pages = DeletePages(d.pages, BlankIndices(d.pages, Len(d.pages) - 1))]

remove_blank_pages_status(s) ==
    IF ~SessionFound(s) THEN 404 ELSE PersistStatus(s, WithoutBlanks(handle[s]))

remove_blank_pages(s) ==
    IF ~SessionFound(s) THEN NotFound
    ELSE LET d2 == WithoutBlanks(handle[s])
         IN  Commit(s, d2, Len(d2.pages))

\* ------------------------------------------------------------- upload routes
\* The handler suspends on `await upload.read()`: the request is parked.
Park(kind, s, n) ==
    /\ Len(inflight) < MaxInflight
    /\ inflight' = Append(inflight, [kind |-> kind, sid |-> s, arg |-> n,
                                     name |-> "", live |-> TRUE])
    /\ last_accessed' = Touch(last_accessed, s)
    /\ UNCHANGED <<state, handle, page_count, storage_path, files,
                   next_id, now, deleted, temp_files, history>>

\* The parked request k ends in an error, without touching the session.
Fail(k) ==
    /\ inflight' = RemoveAt(inflight, k)
    /\ UNCHANGED <<sessionVars, next_id, now, deleted, temp_files, history>>

\* Lines 497-505: look the session up, clamp the position against the page
\* count, check the file name; then the handler awaits file.read().
ClampPosition(d, position) ==
    IF position < 0 \/ position > Len(d.pages) THEN Len(d.pages) ELSE position

\* The temp file of an insert request: insert_<doc_id>_<filename>.
InsertPath(s, name) == <<s, name>>

insert_pages_begin(s, position, name) ==
    IF ~SessionFound(s) THEN NotFound
    ELSE IF name \notin InsertPdfNames THEN Reject(s)
    ELSE /\ RoomForPage(s)
         /\ Len(inflight) < MaxInflight
         /\ inflight' = Append(inflight,
                               [kind |-> "insert_pages", sid |-> s,
                                arg |-> ClampPosition(handle[s], position),
                                name |-> name, live |-> TRUE])
         /\ temp_files' = temp_files \cup {InsertPath(s, name)}
         /\ last_accessed' = Touch(last_accessed, s)
         /\ UNCHANGED <<state, handle, page_count, storage_path, files,
                        next_id, now, deleted, history>>

\* The temp file p was removed: what the requests still suspended with p
\* open write goes to a file that is no longer in TEMP_DIR.
Unlinked(q, p) ==
    [j \in 1..Len(q) |->
        IF q[j].kind = "insert_pages" /\ InsertPath(q[j].sid, q[j].name) = p
        THEN [q[j] EXCEPT !.live = FALSE] ELSE q[j]]

\* Lines 509-537, after the read of the bytes `file`.  Every exception, the
\* 404 of persist_session_document included, is caught and answered with
\* 500; the finally clause removes the temp file.  An insertion point beyond
\* the last page is the engine's to decide: it either appends
\* (engine_appends) or raises.
InsertedAt(d, r) == IF r.arg > Len(d.pages) THEN Len(d.pages) ELSE r.arg

Inserted(d, r) == [d EXCEPT !.pages = InsertAt(d.pages, InsertedAt(d, r), <<InsertedPage>>)]

\* fitz.open of the temp path or insert_pdf raises.
InsertRaises(r, d, file, engine_appends) ==
    \/ ~r.live
    \/ file = "corrupt"
    \/ d.closed
    \/ r.arg > Len(d.pages) /\ ~engine_appends

insert_pages_status(k, file, engine_appends) ==
    LET r == inflight[k]
    IN  IF InsertRaises(r, handle[r.sid], file, engine_appends) THEN 500
        ELSE IF SessionFound(r.sid) THEN 200 ELSE 500

\* insert_pages_from_file leaving the cached page count as it was.
insert_pages_resume_stale_count(k, file, engine_appends) ==
    LET r == inflight[k]
        s == r.sid
        d == handle[s]
        d2 == Inserted(d, r)
        p == InsertPath(s, r.name)
    IN  /\ r.kind = "insert_pages"
        /\ inflight' = Unlinked(RemoveAt(inflight, k), p)
        /\ temp_files' = temp_files \ {p}
        /\ IF InsertRaises(r, d, file, engine_appends)
           THEN UNCHANGED sessionVars
           ELSE /\ handle' = [handle EXCEPT ![s] = d2]
                /\ IF SessionFound(s)
                   THEN /\ files' = [files EXCEPT ![storage_path[s]] = Bytes(d2)]
                        /\ last_accessed' = Touch(last_accessed, s)
                   ELSE UNCHANGED <<files, last_accessed>>
                /\ UNCHANGED <<state, page_count, storage_path>>
        /\ UNCHANGED <<next_id, now, deleted, history>>

insert_pages_resume(k, file, engine_appends) ==
    LET r == inflight[k]
        s == r.sid
        d == handle[s]
        d2 == Inserted(d, r)
        p == InsertPath(s, r.name)
    IN  /\ r.kind = "insert_pages"
        /\ inflight' = Unlinked(RemoveAt(inflight, k), p)
        /\ temp_files' = temp_files \ {p}
        /\ IF InsertRaises(r, d, file, engine_appends)
           THEN UNCHANGED sessionVars
           ELSE /\ handle' = [handle EXCEPT ![s] = d2]
                /\ page_count' = [page_count EXCEPT ![s] = Len(d2.pages)]
                /\ IF SessionFound(s)
                   THEN /\ files' = [files EXCEPT ![storage_path[s]] = Bytes(d2)]
                        /\ last_accessed' = Touch(last_accessed, s)
                   ELSE UNCHANGED <<files, last_accessed>>
                /\ UNCHANGED <<state, storage_path>>
        /\ UNCHANGED <<next_id, now, deleted, history>>

\* annotation_enhancer.py 24-82: validate the page against the handle, then
\* add the file annotation to it.
AnnotationEnhancer_add_file_attachment(d, n) ==
    [d EXCEPT !.pages[n + 1].annots = @ + 1]

\* The model's annotation bound.
RoomForEdit(d, n) == d.pages[n + 1].annots < MaxAnnots

\* Lines 1115-1120: look the session up, take the editor from the record,
\* then await _store_upload_temporarily.
add_file_attachment_upload_begin(s, n) ==
    IF ~SessionFound(s) THEN NotFound
    ELSE Park("add_file_attachment", s, n)

\* Lines 83-101 and 1121-1136, after the read of the bytes `file`: an empty
\* upload is a 400; the editor validates the page against the handle it was
\* built on (len() of a closed handle raises, an unhandled error); the temp
\* file is removed; persist.
add_file_attachment_upload_status(k, file) ==
    LET r == inflight[k]
        d == handle[r.sid]
    IN  IF file = "empty" THEN 400
        ELSE IF d.closed THEN 500
        ELSE IF ~ValidPage(d, r.arg) THEN 400
        ELSE PersistStatus(r.sid, AnnotationEnhancer_add_file_attachment(d, r.arg))

add_file_attachment_upload_resume(k, file) ==
    LET r == inflight[k]
        s == r.sid
        d == handle[s]
    IN  /\ r.kind = "add_file_attachment"
        /\ IF file = "empty" \/ d.closed \/ ~ValidPage(d, r.arg)
           THEN Fail(k)
           ELSE /\ RoomForEdit(d, r.arg)
                /\ inflight' = RemoveAt(inflight, k)
                /\ Mutate(s, AnnotationEnhancer_add_file_attachment(d, r.arg), page_count[s])
                /\ UNCHANGED history

\* ------------------------------------------------------------- navigation
\* A TOC entry is the tuple <<level, title, page>>; pages of the TOC are
\* numbered from 1.  The engine keeps the entries it is given (re-targeting
\* of entries when pages are deleted is outside this model: no page is
\* deleted while a TOC exists).
Levels == 1..2
Titles == {"A", "B"}
TocPages == -1..(MaxPages + 1)

\* The engine's set_toc refuses a list whose first level is not 1 or whose
\* level rises by more than one from an entry to the next.
EngineAcceptsToc(toc) ==
    /\ toc # <<>> => toc[1][1] = 1
    /\ \A i \in 2..Len(toc) : toc[i][1] >= 1 /\ toc[i][1] <= toc[i - 1][1] + 1

\* The result of a Navigation Manager operation: raised or not, the handle
\* after it, the index it returns, the entries it reports in `errors`.
Raised(d) == [ok |-> FALSE, doc |-> d, index |-> -1, errors |-> 0]
Done(d, toc, i, e) == [ok |-> TRUE, doc |-> [d EXCEPT !.toc = toc], index |-> i, errors |-> e]

\* Page numbers of the TOC operations: 1 <= page <= len(document).
ValidTocPage(d, p) == ~(p < 1 \/ p > Len(d.pages))

\* set_toc: entries with an invalid page are reported and skipped, the rest
\* replaces the TOC.
RECURSIVE KeepValid(_, _)
KeepValid(d, toc_data) ==
    IF toc_data = <<>> THEN <<>>
    ELSE (IF ValidTocPage(d, Head(toc_data)[3]) THEN <<Head(toc_data)>> ELSE <<>>)
             \o KeepValid(d, Tail(toc_data))

NavigationManager_set_toc(d, toc_data) ==
    LET toc_list == KeepValid(d, toc_data)
    IN  IF ~EngineAcceptsToc(toc_list) THEN Raised(d)
        ELSE Done(d, toc_list, -1, Len(toc_data) - Len(toc_list))

\* add_bookmark accepting page 0.
NavigationManager_add_bookmark_from_zero(d, level, title, page_num) ==
    IF title = "" THEN Raised(d)
    ELSE IF page_num < 0 \/ page_num > Len(d.pages) THEN Raised(d)
    ELSE LET toc == Append(d.toc, <<level, title, page_num>>)
         IN  IF ~EngineAcceptsToc(toc) THEN Raised(d)
             ELSE Done(d, toc, Len(toc) - 1, 0)

\* add_bookmark writing the new entry over an empty snapshot of the TOC.
NavigationManager_add_bookmark_lost(d, level, title, page_num) ==
    IF title = "" THEN Raised(d)
    ELSE IF ~ValidTocPage(d, page_num) THEN Raised(d)
    ELSE LET toc == <<<<level, title, page_num>>>>
         IN  IF ~EngineAcceptsToc(toc) THEN Raised(d)
             ELSE Done(d, toc, Len(toc) - 1, 0)

NavigationManager_add_bookmark(d, level, title, page_num) ==
    IF title = "" THEN Raised(d)
    ELSE IF ~ValidTocPage(d, page_num) THEN Raised(d)
    ELSE LET toc == Append(d.toc, <<level, title, page_num>>)
         IN  IF ~EngineAcceptsToc(toc) THEN Raised(d)
             ELSE Done(d, toc, Len(toc) - 1, 0)

\* delete_bookmark popping the first entry whatever the index.
NavigationManager_delete_bookmark_first(d, index) ==
    IF index < 0 \/ index >= Len(d.toc) THEN Raised(d)
    ELSE LET toc == RemoveAt(d.toc, 1)
         IN  IF ~EngineAcceptsToc(toc) THEN Raised(d) ELSE Done(d, toc, index, 0)

NavigationManager_delete_bookmark(d, index) ==
    IF index < 0 \/ index >= Len(d.toc) THEN Raised(d)
    ELSE LET toc == RemoveAt(d.toc, index + 1)
         IN  IF ~EngineAcceptsToc(toc) THEN Raised(d) ELSE Done(d, toc, index, 0)

\* title and page are Optional: {} is None, {v} is the value v.
NavigationManager_update_bookmark(d, index, title, page) ==
    IF index < 0 \/ index >= Len(d.toc) THEN Raised(d)
    ELSE LET old == d.toc[index + 1]
             new_title == IF title = {} THEN old[2] ELSE CHOOSE v \in title : TRUE
             new_page == IF page = {} THEN old[3] ELSE CHOOSE v \in page : TRUE
             toc == [d.toc EXCEPT ![index + 1] = <<old[1], new_title, new_page>>]
         IN  IF ~ValidTocPage(d, new_page) THEN Raised(d)
             ELSE IF ~EngineAcceptsToc(toc) THEN Raised(d)
             ELSE Done(d, toc, index, 0)

\* create_toc_from_headers: one entry for each text line of header size.  A
\* page with content holds one line titled "A"; `level` is the level the
\* request's thresholds give to its font size (0: below all three).
RECURSIVE HeaderEntries(_, _, _)
HeaderEntries(pages, n, level) ==
    IF n > Len(pages) THEN <<>>
    ELSE (IF pages[n].blank \/ level = 0 THEN <<>> ELSE << <<level, "A", n>> >>)
             \o HeaderEntries(pages, n + 1, level)

NavigationManager_create_toc_from_headers(d, level) ==
    LET toc_entries == HeaderEntries(d.pages, 1, level)
        combined_toc == d.toc \o toc_entries
    IN  IF toc_entries = <<>> THEN Done(d, d.toc, -1, 0)
        ELSE IF ~EngineAcceptsToc(combined_toc) THEN Raised(d)
        ELSE Done(d, combined_toc, -1, 0)

\* add_link with a url: page numbers are 0-based; the link is an annotation
\* of the page.
NavigationManager_add_link(d, page_num) ==
    IF page_num < 0 \/ page_num >= Len(d.pages) THEN Raised(d)
    ELSE [ok |-> TRUE, doc |-> [d EXCEPT !.pages[page_num + 1].annots = @ + 1],
          index |-> -1, errors |-> 0]

\* get_toc_structure: one dictionary for each entry the engine returns; an
\* exception of the engine's get_toc gives the empty list.
NavigationManager_get_toc_structure(d) ==
    IF d.closed THEN <<>>
    ELSE [i \in 1..Len(d.toc) |->
             [level |-> d.toc[i][1], title |-> d.toc[i][2], page |-> d.toc[i][3],
              has_link |-> FALSE]]

\* ------------------------------------------------------------- navigation routes
\* Each route: get_session, one Navigation Manager operation (an
\* InvalidOperationError is answered with 400), persist_session_document.
\* None of them awaits between the lookup and the persist.
NavStatus(s, r) ==
    IF ~SessionFound(s) THEN 404
    ELSE IF ~r.ok THEN 400
    ELSE PersistStatus(s, r.doc)

\* The operation raised; bad_page: because of its page number.
NavFail(s, op, bad_page) ==
    /\ last_accessed' = Touch(last_accessed, s)
    /\ rejected' = IF bad_page THEN op ELSE rejected
    /\ UNCHANGED <<state, handle, page_count, storage_path, files,
                   next_id, now, inflight, deleted, round_trip, temp_files, io_history>>

NavCommit(s, d, rt, rej) ==
    /\ Mutate(s, d, page_count[s])
    /\ round_trip' = rt
    /\ rejected' = rej
    /\ UNCHANGED <<inflight, io_history>>

\* Lines 920-929.
get_toc_data(s) ==
    Answer("get_toc", s, 0, <<>>, NavigationManager_get_toc_structure(handle[s]))

get_toc(s) ==
    IF ~SessionFound(s) THEN NotFound ELSE Inspect(s, get_toc_data(s))

\* Lines 932-944.
set_toc_status(s, toc_data) == NavStatus(s, NavigationManager_set_toc(handle[s], toc_data))

set_toc(s, toc_data) ==
    IF ~SessionFound(s) THEN NotFound
    ELSE LET r == NavigationManager_set_toc(handle[s], toc_data)
         IN  IF ~r.ok THEN NavFail(s, "set_toc", FALSE)
             ELSE NavCommit(s, r.doc, NoRoundTrip,
                            IF r.errors > 0 THEN "set_toc" ELSE rejected)

\* Lines 947-958.
add_bookmark_status(s, level, title, page_num) ==
    NavStatus(s, NavigationManager_add_bookmark(handle[s], level, title, page_num))

add_bookmark(s, level, title, page_num) ==
    IF ~SessionFound(s) THEN NotFound
    ELSE LET r == NavigationManager_add_bookmark(handle[s], level, title, page_num)
         IN  IF ~r.ok
             THEN NavFail(s, "add_bookmark",
                          title # "" /\ ~ValidTocPage(handle[s], page_num))
             ELSE /\ Len(handle[s].toc) < MaxToc
                  /\ NavCommit(s, r.doc,
                               [phase |-> "added", sid |-> s, index |-> r.index,
                                before |-> handle[s].toc, mid |-> r.doc.toc,
                                after |-> <<>>],
                               rejected)

\* Lines 961-974.
update_bookmark_status(s, index, title, page) ==
    NavStatus(s, NavigationManager_update_bookmark(handle[s], index, title, page))

update_bookmark(s, index, title, page) ==
    IF ~SessionFound(s) THEN NotFound
    ELSE LET r == NavigationManager_update_bookmark(handle[s], index, title, page)
         IN  IF ~r.ok
             THEN NavFail(s, "update_bookmark",
                          /\ index >= 0 /\ index < Len(handle[s].toc)
                          /\ \E v \in page : ~ValidTocPage(handle[s], v))
             ELSE NavCommit(s, r.doc, NoRoundTrip, rejected)

\* Lines 977-988.  The round trip is complete when the index is the one the
\* last add_bookmark returned and the TOC is as that add_bookmark left it.
delete_bookmark_status(s, index) ==
    NavStatus(s, NavigationManager_delete_bookmark(handle[s], index))

delete_bookmark(s, index) ==
    IF ~SessionFound(s) THEN NotFound
    ELSE LET r == NavigationManager_delete_bookmark(handle[s], index)
         IN  IF ~r.ok THEN NavFail(s, "delete_bookmark", FALSE)
             ELSE NavCommit(s, r.doc,
                            IF /\ round_trip.phase = "added"
                               /\ round_trip.sid = s
                               /\ round_trip.index = index
                               /\ round_trip.mid = handle[s].toc
                            THEN [round_trip EXCEPT !.phase = "deleted",
                                                    !.after = r.doc.toc]
                            ELSE NoRoundTrip,
                            rejected)

\* Lines 1003-1023, with three well-formed thresholds.
create_toc_from_headers_status(s, level) ==
    NavStatus(s, NavigationManager_create_toc_from_headers(handle[s], level))

create_toc_from_headers(s, level) ==
    IF ~SessionFound(s) THEN NotFound
    ELSE LET r == NavigationManager_create_toc_from_headers(handle[s], level)
         IN  IF ~r.ok THEN NavFail(s, "create_toc_from_headers", FALSE)
             ELSE /\ Len(r.doc.toc) <= MaxToc
                  /\ NavCommit(s, r.doc,
                               IF r.doc.toc = handle[s].toc THEN round_trip
                               ELSE NoRoundTrip,
                               rejected)

\* Lines 1041-1060.
add_link_status(s, page_num) ==
    NavStatus(s, NavigationManager_add_link(handle[s], page_num))

add_link(s, page_num) ==
    IF ~SessionFound(s) THEN NotFound
    ELSE LET r == NavigationManager_add_link(handle[s], page_num)
         IN  IF ~r.ok THEN NavFail(s, "add_link", TRUE)
             ELSE /\ RoomForEdit(handle[s], page_num)
                  /\ NavCommit(s, r.doc, round_trip, rejected)

\* ------------------------------------------------------------- text processor
\* page.search_for: the positions, from i on, of the spans of the page that
\* read search_text.
RECURSIVE Page_search_for(_, _, _)
Page_search_for(pg, search_text, i) ==
    IF i > Len(pg.text) THEN <<>>
    ELSE (IF pg.text[i].word = search_text THEN <<i>> ELSE <<>>)
         \o Page_search_for(pg, search_text, i + 1)

\* The rectangle of the span at position i of a page.
SpanRect(i) == Rect(0, i - 1, PageSize, i)

\* What an operation of the Text Processor returned or raised.
TextResult(raised, d, count, has_rects, rects, matches) ==
    [raised |-> raised, doc |-> d, count |-> count, has_rects |-> has_rects,
     rects |-> rects, matches |-> matches]

\* Lines 248-285: the loop over the matches, from match k on. engine says
\* which engine call raises (none, search_for, apply_redactions,
\* insert_text), at which match, and whether get_font_at_position finds the
\* font of a match. The redaction is outside the try block, the insertion
\* inside it.
RECURSIVE ReplaceLoop(_, _, _, _, _, _, _, _)
ReplaceLoop(d, n, new_text, matches, k, engine, count, rects) ==
    IF k > Len(matches) THEN TextResult("none", d, count, TRUE, rects, matches)
    ELSE LET i == matches[k]
             font_name ==
                 IF engine.sampled
                 THEN TextProcessor_find_best_match_font(d.pages[n + 1].text[i].font)
                 ELSE BUILTIN_FONTS[5]
             redacted == [d EXCEPT !.pages[n + 1].text[i] = Span("", <<>>)]
             inserted == [d EXCEPT !.pages[n + 1].text[i] = Span(new_text, font_name)]
         IN  IF engine.fault = "apply_redactions" /\ engine.at = k
             THEN TextResult("Exception", d, count, FALSE, <<>>, matches)
             ELSE IF engine.fault = "insert_text" /\ engine.at = k
             THEN ReplaceLoop(redacted, n, new_text, matches, k + 1, engine, count, rects)
             ELSE ReplaceLoop(inserted, n, new_text, matches, k + 1, engine,
                              count + 1, Append(rects, SpanRect(i)))

\* replace_text_preserve_font refusing a search text that is not on the page.
TextProcessor_replace_text_preserve_font_strict(d, n, search_text, new_text, engine) ==
    IF d.closed THEN TextResult("Exception", d, 0, FALSE, <<>>, <<>>)
    ELSE IF ~ValidPage(d, n) \/ search_text = "" \/ engine.fault = "search_for"
    THEN TextResult("InvalidOperationError", d, 0, FALSE, <<>>, <<>>)
    ELSE LET text_instances == Page_search_for(d.pages[n + 1], search_text, 1)
         IN  IF text_instances = <<>>
             THEN TextResult("InvalidOperationError", d, 0, FALSE, <<>>, <<>>)
             ELSE ReplaceLoop(d, n, new_text, text_instances, 1, engine, 0, <<>>)

\* text_processor.py 211-291. The length of a closed document cannot be
\* taken: the page check raises the engine's own error.
TextProcessor_replace_text_preserve_font(d, n, search_text, new_text, engine) ==
    IF d.closed THEN TextResult("Exception", d, 0, FALSE, <<>>, <<>>)
    ELSE IF ~ValidPage(d, n) \/ search_text = "" \/ engine.fault = "search_for"
    THEN TextResult("InvalidOperationError", d, 0, FALSE, <<>>, <<>>)
    ELSE LET text_instances == Page_search_for(d.pages[n + 1], search_text, 1)
         IN  IF text_instances = <<>>
             THEN TextResult("none", d, 0, FALSE, <<>>, <<>>)
             ELSE ReplaceLoop(d, n, new_text, text_instances, 1, engine, 0, <<>>)

\* ------------------------------------------------------------- rich text editor
\* rich_text_editor.py 382-440: the page check, two rectangles drawn, the
\* text inserted; no engine call is inside a try block. fault: the engine
\* call that raises (none, draw_rect, insert_text).
RichTextEditor_insert_textbox_with_border(d, n, text, fault) ==
    IF d.closed THEN TextResult("Exception", d, 0, FALSE, <<>>, <<>>)
    ELSE IF ~ValidPage(d, n) THEN TextResult("InvalidOperationError", d, 0, FALSE, <<>>, <<>>)
    ELSE LET boxed == [d EXCEPT !.pages[n + 1].blank = FALSE]
             filled == [boxed EXCEPT !.pages[n + 1].text =
                                        Append(@, Span(text, BUILTIN_FONTS[5]))]
         IN  IF fault = "draw_rect" THEN TextResult("Exception", d, 0, FALSE, <<>>, <<>>)
             ELSE IF fault = "insert_text"
             THEN TextResult("Exception", boxed, 0, FALSE, <<>>, <<>>)
             ELSE TextResult("none", filled, 0, FALSE, <<>>, <<>>)

\* ------------------------------------------------------------- image processor
\* image_processor.py 206-256: the page check; an exception of
\* clean_contents (fault: none, clean_contents) becomes the "error" entry of
\* the statistics returned.
ImageProcessor_optimize_page(d, n, fault) ==
    IF d.closed THEN TextResult("Exception", d, 0, FALSE, <<>>, <<>>)
    ELSE IF ~ValidPage(d, n) THEN TextResult("InvalidOperationError", d, 0, FALSE, <<>>, <<>>)
    ELSE TextResult("none", d, 0, FALSE, <<>>, <<>>)

\* ------------------------------------------------------------- text routes
\* The status of a route made of get_session, one editor operation with the
\* result r and persist_session_document: an InvalidOperationError is
\* answered with 400, any other exception with 500.
EditorStatus(s, r) ==
    IF ~SessionFound(s) THEN 404
    ELSE IF r.raised = "InvalidOperationError" THEN 400
    ELSE IF r.raised # "none" THEN 500
    ELSE PersistStatus(s, r.doc)

\* Such a route on a session that was found, answering with `answer`: what
\* the operation did to the handle stays, the persist step is reached only
\* when the operation returned.
EditorRoute(s, r, answer) ==
    /\ edit_result' = answer
    /\ UNCHANGED <<inflight, rejected, round_trip, upload_status, response, serverVars>>
    /\ IF r.raised # "none"
       THEN /\ handle' = [handle EXCEPT ![s] = r.doc]
            /\ last_accessed' = Touch(last_accessed, s)
            /\ UNCHANGED <<state, page_count, storage_path, files,
                           next_id, now, deleted, temp_files>>
       ELSE Mutate(s, r.doc, page_count[s])

\* documents.py 835-858.
insert_textbox_with_border(s, n, text, fault) ==
    IF ~SessionFound(s) THEN NotFound
    ELSE LET r == RichTextEditor_insert_textbox_with_border(handle[s], n, text, fault)
         IN  EditorRoute(s, r,
                 [NoEdit EXCEPT !.op = "insert_textbox_with_border", !.sid = s,
                                !.page = n, !.status = EditorStatus(s, r),
                                !.raised = r.raised,
                                !.valid_page = ValidPage(handle[s], n),
                                !.fault = IF ValidPage(handle[s], n) THEN fault ELSE "none",
                                !.mutated = r.doc # handle[s]])

\* documents.py 1501-1512.
optimize_page(s, n, fault) ==
    IF ~SessionFound(s) THEN NotFound
    ELSE LET r == ImageProcessor_optimize_page(handle[s], n, fault)
         IN  EditorRoute(s, r,
                 [NoEdit EXCEPT !.op = "optimize_page", !.sid = s,
                                !.page = n, !.status = EditorStatus(s, r),
                                !.raised = r.raised,
                                !.valid_page = ValidPage(handle[s], n),
                                !.fault = IF ValidPage(handle[s], n) THEN fault ELSE "none",
                                !.mutated = r.doc # handle[s]])

\* image_processor.py 146-181: the rectangle the replacement is inserted
\* into. The aspect ratio is width / height of the picture; the quotients
\* are exact on the inputs of ImageRects and Images. The top of the result
\* is computed from rect.y1.
InsertRect(rect, image, maintain_aspect) ==
    LET rect_width == rect.x1 - rect.x0
        rect_height == rect.y1 - rect.y0
        wider == rect_width * image.height > image.width * rect_height
        new_width == IF wider THEN (rect_height * image.width) \div image.height
                     ELSE rect_width
        new_height == IF wider THEN rect_height
                      ELSE (rect_width * image.height) \div image.width
        x_offset == IF wider THEN (rect_width - new_width) \div 2 ELSE 0
        y_offset == IF wider THEN 0 ELSE (rect_height - new_height) \div 2
    IN  IF maintain_aspect /\ image.readable
        THEN Rect(rect.x0 + x_offset, rect.y1 + y_offset,
                  rect.x0 + x_offset + new_width, rect.y1 + y_offset + new_height)
        ELSE rect

\* The spans of a page that a redaction of rect removes.
RedactPage(pg, rect) ==
    [pg EXCEPT !.text = [i \in 1..Len(pg.text) |->
        IF /\ SpanRect(i).x0 < rect.x1 /\ rect.x0 < SpanRect(i).x1
           /\ SpanRect(i).y0 < rect.y1 /\ rect.y0 < SpanRect(i).y1
        THEN Span("", <<>>) ELSE pg.text[i]]]

\* image_processor.py 110-194: the old rectangle is redacted and the
\* picture is inserted into InsertRect; the page has an image afterwards.
ImageProcessor_replace_image(d, n, old_rect, image, maintain_aspect) ==
    IF d.closed THEN TextResult("Exception", d, 0, FALSE, <<>>, <<>>)
    ELSE IF ~ValidPage(d, n) \/ ~image.exists
    THEN TextResult("InvalidOperationError", d, 0, FALSE, <<>>, <<>>)
    ELSE TextResult("none",
                    [d EXCEPT !.pages[n + 1] =
                        [RedactPage(d.pages[n + 1], old_rect) EXCEPT !.blank = FALSE]],
                    1, TRUE, <<InsertRect(old_rect, image, maintain_aspect)>>, <<>>)

\* documents.py 1376-1392.
replace_image(s, n, old_rect, image, maintain_aspect) ==
    IF ~SessionFound(s) THEN NotFound
    ELSE LET r == ImageProcessor_replace_image(handle[s], n, old_rect, image, maintain_aspect)
         IN  EditorRoute(s, r,
                 [NoEdit EXCEPT !.op = "replace_image", !.sid = s,
                                !.page = n, !.status = EditorStatus(s, r),
                                !.raised = r.raised,
                                !.valid_page = ValidPage(handle[s], n),
                                !.has_rects = r.has_rects, !.rects = r.rects,
                                !.old_rect = old_rect, !.image = image,
                                !.maintain_aspect = maintain_aspect,
                                !.mutated = r.doc # handle[s]])

\* image_processor.py 258-327 on a processor built on handle d: the document
\* is saved to the output path; a failing save is raised as
\* InvalidOperationError. The handle is neither reopened nor closed.
ImageProcessor_optimize_document_closing(d, fault) ==
    IF d.closed \/ fault = "save"
    THEN TextResult("InvalidOperationError", d, 0, FALSE, <<>>, <<>>)
    ELSE TextResult("none", [d EXCEPT !.closed = TRUE], 0, FALSE, <<>>, <<>>)

ImageProcessor_optimize_document(d, fault) ==
    IF d.closed \/ fault = "save"
    THEN TextResult("InvalidOperationError", d, 0, FALSE, <<>>, <<>>)
    ELSE TextResult("none", d, 0, FALSE, <<>>, <<>>)

\* documents.py 1515-1551: the processor of the session, or one built on the
\* session's handle for this request, writes optimized_<doc_id>_<name> into
\* TEMP_DIR; the file is the response and stays there. Nothing is persisted.
OptimizedPath(s) == <<s, "optimized">>

optimize_document(s, fault) ==
    IF ~SessionFound(s) THEN NotFound
    ELSE LET r == ImageProcessor_optimize_document(handle[s], fault)
         IN  /\ edit_result' = [NoEdit EXCEPT !.op = "optimize_document", !.sid = s,
                                              !.status = IF r.raised = "none" THEN 200 ELSE 400,
                                              !.raised = r.raised, !.fault = fault,
                                              !.mutated = r.doc # handle[s]]
             /\ handle' = [handle EXCEPT ![s] = r.doc]
             /\ last_accessed' = Touch(last_accessed, s)
             /\ temp_files' = IF r.raised = "none"
                              THEN temp_files \cup {OptimizedPath(s)}
                              ELSE temp_files
             /\ UNCHANGED <<state, page_count, storage_path, files, next_id, now,
                            inflight, deleted, rejected, round_trip, upload_status,
                            response, serverVars>>

\* documents.py 759-772: get_session, the operation, persist_session_document.
\* An InvalidOperationError is answered with 400, any other exception with 500.
replace_text(s, n, search_text, new_text, engine) ==
    IF ~SessionFound(s) THEN NotFound
    ELSE LET r == TextProcessor_replace_text_preserve_font(
                      handle[s], n, search_text, new_text, engine)
         IN  EditorRoute(s, r,
                    [op |-> "replace_text", sid |-> s, page |-> n,
                     search_text |-> search_text,
                     status |-> EditorStatus(s, r),
                     raised |-> r.raised, count |-> r.count,
                     has_rects |-> r.has_rects, rects |-> r.rects,
                     matches |-> IF ValidPage(handle[s], n)
                                 THEN Page_search_for(handle[s].pages[n + 1], search_text, 1)
                                 ELSE <<>>,
                     valid_page |-> ValidPage(handle[s], n),
                     fault |-> IF \/ ~ValidPage(handle[s], n)
                                  \/ search_text = ""
                                  \/ /\ engine.fault \in {"apply_redactions", "insert_text"}
                                     /\ engine.at > Len(r.matches)
                               THEN "none" ELSE engine.fault,
                     mutated |-> r.doc # handle[s],
                     fonts |-> IF r.raised = "none" /\ engine.sampled
                               THEN [k \in 1..Len(r.matches) |->
                                        LET font_name ==
                                                handle[s].pages[n + 1].text[r.matches[k]].font
                                        IN  <<font_name,
                                              TextProcessor_find_best_match_font(font_name)>>]
                               ELSE <<>>])

\* ------------------------------------------------------------- idle reaper
Tick ==
    /\ now < MaxTime
    /\ now' = now + 1
    /\ UNCHANGED <<sessionVars, next_id, inflight, deleted, temp_files, history>>

\* A sweep that expires a session whatever its last access.
reaper_expire_eager(s) ==
    /\ state[s] = "Active"
    /\ state' = [state EXCEPT ![s] = "Expiring"]
    /\ UNCHANGED <<handle, page_count, storage_path, last_accessed, files,
                   next_id, now, inflight, deleted, temp_files, history>>

\* The sweep finds a session idle for longer than the threshold.
reaper_expire(s) ==
    /\ state[s] = "Active"
    /\ now - last_accessed[s] > IdleThreshold
    /\ state' = [state EXCEPT ![s] = "Expiring"]
    /\ UNCHANGED <<handle, page_count, storage_path, last_accessed, files,
                   next_id, now, inflight, deleted, temp_files, history>>

\* The sweep tears the expiring session down.
reaper_destroy(s) ==
    /\ state[s] = "Expiring"
    /\ delete_session(s)
    /\ UNCHANGED <<next_id, now, inflight, deleted, temp_files, history>>

\* ------------------------------------------------------------- annotation enhancer
\* annotation_enhancer.py 417-445: for every pair of consecutive points, the
\* divisors used (x2 - x1 when the slope is taken, then the length of the
\* perpendicular) and the quad built. The points are on a grid and every
\* segment is horizontal, vertical or of length zero, so that the slope is
\* 0 and the length is 1; width is even.
Segments(points, width) ==
    [i \in 1..(Len(points) - 1) |->
        LET x1 == points[i][1]
            y1 == points[i][2]
            x2 == points[i + 1][1]
            y2 == points[i + 1][2]
            offset == width \div 2
            slope == IF x2 # x1 THEN (y2 - y1) \div (x2 - x1) ELSE 0
            perp_x == IF x2 # x1 THEN -slope ELSE 1
            perp_y == IF x2 # x1 THEN 1 ELSE 0
            length == IF perp_x * perp_x + perp_y * perp_y = 1 THEN 1 ELSE 0
        IN  [divisors |-> IF x2 # x1 THEN <<x2 - x1, length>> ELSE <<length>>,
             from |-> points[i], to |-> points[i + 1],
             quad |-> << <<x1 - perp_x * offset, y1 - perp_y * offset>>,
                         <<x2 - perp_x * offset, y2 - perp_y * offset>>,
                         <<x1 + perp_x * offset, y1 + perp_y * offset>>,
                         <<x2 + perp_x * offset, y2 + perp_y * offset>> >>]]

\* annotation_enhancer.py 383-479: one highlight annotation over the quads
\* of all segments; when the engine refuses it, one ink annotation over the
\* points; when it refuses that too, InvalidOperationError.
AnnotationEnhancer_add_freehand_highlight(d, n, points, width, fault) ==
    IF d.closed THEN TextResult("Exception", d, 0, FALSE, <<>>, <<>>)
    ELSE IF ~ValidPage(d, n) \/ Len(points) < 2
    THEN TextResult("InvalidOperationError", d, 0, FALSE, <<>>, <<>>)
    ELSE IF fault = "add_ink_annot"
    THEN TextResult("InvalidOperationError", d, 0, FALSE, <<>>, <<>>)
    ELSE TextResult("none", [d EXCEPT !.pages[n + 1].annots = @ + 1],
                    Len(points), FALSE, <<>>, <<>>)

\* documents.py 1317-1334. The answer keeps the segments the operation
\* built its quads from.
add_freehand_highlight(s, n, points, width, fault) ==
    IF ~SessionFound(s) THEN NotFound
    ELSE LET r == AnnotationEnhancer_add_freehand_highlight(handle[s], n, points, width, fault)
             segments == IF ValidPage(handle[s], n) /\ Len(points) >= 2
                         THEN Segments(points, width) ELSE <<>>
         IN  EditorRoute(s, r,
                 [NoEdit EXCEPT !.op = "add_freehand_highlight", !.sid = s,
                                !.page = n, !.status = EditorStatus(s, r),
                                !.raised = r.raised,
                                !.valid_page = ValidPage(handle[s], n),
                                !.fault = fault, !.count = r.count,
                                !.points = points,
                                !.quads = [i \in 1..Len(segments) |-> segments[i].quad],
                                !.divisors = [i \in 1..Len(segments) |-> segments[i].divisors],
                                !.mutated = r.doc # handle[s]])

\* ------------------------------------------------------------- middleware
\* middleware.py 47-58: the first address of X-Forwarded-For, else X-Real-IP,
\* else the peer address.
get_client_ip(request) ==
    IF request.forwarded # <<>> THEN request.forwarded[1]
    ELSE IF request.real_ip # "" THEN request.real_ip
    ELSE request.host

\* middleware.py 60-63: the timestamps newer than the cutoff stay.
cleanup_old_requests(ts, current_time) ==
    LET cutoff == current_time - window_seconds
    IN  SelectSeq(ts, LAMBDA x : x > cutoff)

\* A limiter that records the request before it looks at the count.
is_rate_limited_recording(ip) ==
    LET kept == cleanup_old_requests(requests[ip], now)
    IN  [limited |-> Len(kept) >= requests_limit, recorded |-> Append(kept, now)]

\* middleware.py 65-81: whether the request is refused, and the list of the
\* address afterwards; a refused request is not appended.
is_rate_limited(ip) ==
    LET kept == cleanup_old_requests(requests[ip], now)
    IN  IF Len(kept) >= requests_limit
        THEN [limited |-> TRUE,  recorded |-> kept]
        ELSE [limited |-> FALSE, recorded |-> Append(kept, now)]

RateLimitHeaders == {"X-RateLimit-Limit", "X-RateLimit-Remaining", "X-RateLimit-Reset"}

\* middleware.py 144-156 around the routes: the response of the routes gets
\* the security headers; an exception of the routes passes through.
SecurityHeadersMiddleware_dispatch(status, raises) ==
    IF raises
    THEN [status |-> 500, headers |-> {}, raised |-> TRUE]
    ELSE [status |-> status, headers |-> get_security_headers, raised |-> FALSE]

\* One request through the stack of main.py 57-69. add_middleware puts each
\* middleware outside the ones added before it: RateLimitMiddleware runs
\* outside SecurityHeadersMiddleware. middleware.py 83-110: a refused request
\* is answered 429 here and goes no further; otherwise the inner stack
\* answers and the rate headers are added. An exception of the routes
\* passes every dispatch and is answered 500 by the server's error handler.
RateLimitMiddleware_dispatch(request, status, raises) ==
    LET ip == get_client_ip(request)
        r == is_rate_limited(ip)
        inner == SecurityHeadersMiddleware_dispatch(status, raises)
    IN  /\ requests' = [requests EXCEPT ![ip] = r.recorded]
        /\ admitted' = IF r.limited THEN admitted
                       ELSE [admitted EXCEPT ![ip] = Append(@, now)]
        /\ http_response' =
               IF r.limited
               THEN [status |-> 429, headers |-> RateLimitHeaders \cup {"Retry-After"},
                     ip |-> ip, by |-> "RateLimitMiddleware", recorded |-> FALSE]
               ELSE IF inner.raised
               THEN [status |-> 500, headers |-> {},
                     ip |-> ip, by |-> "ServerErrorMiddleware", recorded |-> TRUE]
               ELSE [status |-> inner.status, headers |-> inner.headers \cup RateLimitHeaders,
                     ip |-> ip, by |-> "routes", recorded |-> TRUE]
        /\ UNCHANGED <<sessionVars, next_id, now, inflight, deleted, temp_files,
                       route_history, shutdown>>

\* time.time() moves on.
Elapse ==
    /\ now < MaxClock
    /\ now' = now + 1
    /\ UNCHANGED <<sessionVars, next_id, inflight, deleted, temp_files, history>>

\* ------------------------------------------------------------- shutdown
Live(s) == state[s] \in {"Active", "Expiring"}

\* The teardown of every session of the set doomed: the handle is closed,
\* the storage file is removed, the record is dropped.
TearDown(doomed) ==
    /\ state' = [s \in SessionIds |-> IF s \in doomed THEN "Destroyed" ELSE state[s]]
    /\ handle' = [s \in SessionIds |-> IF s \in doomed THEN NoDoc ELSE handle[s]]
    /\ files' = [p \in Paths |->
                    IF \E s \in doomed : storage_path[s] = p THEN NoFile ELSE files[p]]
    /\ page_count' = [s \in SessionIds |-> IF s \in doomed THEN 0 ELSE page_count[s]]
    /\ storage_path' = [s \in SessionIds |->
                           IF s \in doomed THEN "a.pdf" ELSE storage_path[s]]
    /\ last_accessed' = [s \in SessionIds |->
                            IF s \in doomed THEN 0 ELSE last_accessed[s]]

\* A shutdown hook that tears down only the sessions idle past the threshold.
cleanup_all_sessions_stale ==
    /\ ~shutdown
    /\ shutdown' = TRUE
    /\ TearDown({s \in SessionIds : Live(s) /\ now - last_accessed[s] > IdleThreshold})
    /\ UNCHANGED <<next_id, now, inflight, deleted, temp_files, route_history,
                   requests, admitted, http_response>>

\* The shutdown hook of the lifespan: every live session is torn down,
\* whatever its last access.
cleanup_all_sessions ==
    /\ ~shutdown
    /\ shutdown' = TRUE
    /\ TearDown({s \in SessionIds : Live(s)})
    /\ UNCHANGED <<next_id, now, inflight, deleted, temp_files, route_history,
                   requests, admitted, http_response>>

\* ------------------------------------------------------------- specification
Parked == 1..MaxInflight

\* No session is live.
NoneLive == \A s \in SessionIds : state[s] \in {"Unborn", "Destroyed"}

\* Pages and concurrency: the page routes and the routes that suspend.  The
\* documents are edited one after the other here (requests parked on an
\* earlier session may still be pending when the next one is uploaded);
\* SpecLife runs sessions side by side.
Next ==
    \/ \E f \in Uploads : NoneLive /\ upload_document(f)
    \/ \E s \in SessionIds : delete_document(s)
    \/ \E s \in SessionIds, n \in PageArgs : delete_page(s, n)
    \/ \E s \in SessionIds, n \in PageArgs : rotate_page(s, n, 90)
    \/ \E s \in SessionIds, n \in PageArgs, a \in InsertAtArgs :
           RoomForPage(s) /\ duplicate_page(s, n, a)
    \/ \E s \in SessionIds : remove_blank_pages(s)
    \/ \E s \in SessionIds, n \in 0..MaxPages, f \in InsertNames : insert_pages_begin(s, n, f)
    \/ \E k \in Parked, f \in InsertFiles, e \in BOOLEAN :
           k <= Len(inflight) /\ insert_pages_resume(k, f, e)
    \/ \E s \in SessionIds, n \in 0..(MaxPages - 1) : add_file_attachment_upload_begin(s, n)
    \/ \E k \in Parked, f \in AttachFiles :
           k <= Len(inflight) /\ add_file_attachment_upload_resume(k, f)

Spec == Init /\ [][Next]_vars

\* Session lifecycle: sessions side by side, the clock and the idle reaper,
\* on one-page documents.
LifeUploads == { Upload(n, "ok", <<TextPage(1)>>) : n \in PdfNames }

NextLife ==
    \/ \E f \in LifeUploads : upload_document(f)
    \/ \E s \in SessionIds : get_document_info(s)
    \/ \E s \in SessionIds : delete_document(s)
    \/ \E s \in SessionIds : rotate_page(s, 0, 90)
    \/ \E s \in SessionIds : add_file_attachment_upload_begin(s, 0)
    \/ \E k \in Parked, f \in AttachFiles :
           k <= Len(inflight) /\ add_file_attachment_upload_resume(k, f)
    \/ Tick
    \/ \E s \in SessionIds : reaper_expire(s)
    \/ \E s \in SessionIds : reaper_destroy(s)

SpecLife == Init /\ [][NextLife]_vars

\* The server until its shutdown hook has run: nothing is served afterwards.
NextShutdown ==
    \/ ~shutdown /\ \E f \in LifeUploads : upload_document(f)
    \/ ~shutdown /\ \E s \in SessionIds : get_document_info(s)
    \/ ~shutdown /\ \E s \in SessionIds : delete_document(s)
    \/ ~shutdown /\ Tick
    \/ ~shutdown /\ \E s \in SessionIds : reaper_expire(s)
    \/ ~shutdown /\ \E s \in SessionIds : reaper_destroy(s)
    \/ cleanup_all_sessions

SpecShutdown == Init /\ [][NextShutdown]_vars

\* Requests of two peers, with and without proxy headers, whose route
\* answers 200 or 404, or raises an exception no handler is registered for.
HttpRequests ==
    { [forwarded |-> f, real_ip |-> r, host |-> h] :
        f \in {<<>>, <<"10.0.0.2", "10.0.0.1">>}, r \in {"", "10.0.0.1"}, h \in ClientIps }

NextMiddleware ==
    \/ \E request \in HttpRequests, status \in {200, 404}, raises \in BOOLEAN :
           (raises => status = 200) /\ RateLimitMiddleware_dispatch(request, status, raises)
    \/ Elapse

SpecMiddleware == Init /\ [][NextMiddleware]_vars

\* Navigation: the TOC routes and add_link on one session, beside requests
\* suspended on their upload read.
NavUploads == { Upload("a.pdf", "ok", p) : p \in UploadDocs }
SetTocEntries == { <<l, "A", p>> : l \in Levels, p \in {-1, 1, MaxPages} }
TocData ==
    {<<>>} \cup { <<e>> : e \in SetTocEntries } \cup { <<e, f>> : e, f \in SetTocEntries }
OptionalTitles == {{}, {"B"}}
OptionalPages == {{}} \cup { {p} : p \in TocPages }
BookmarkIndices == -1..MaxToc

NextNav ==
    \/ \E f \in NavUploads : NoneLive /\ upload_document(f)
    \/ \E s \in SessionIds, toc_data \in TocData : set_toc(s, toc_data)
    \/ \E s \in SessionIds, l \in Levels, t \in Titles \cup {""}, p \in TocPages :
           add_bookmark(s, l, t, p)
    \/ \E s \in SessionIds, i \in BookmarkIndices, t \in OptionalTitles, p \in OptionalPages :
           update_bookmark(s, i, t, p)
    \/ \E s \in SessionIds, i \in BookmarkIndices : delete_bookmark(s, i)
    \/ \E s \in SessionIds, l \in 0..2 : create_toc_from_headers(s, l)
    \/ \E s \in SessionIds, n \in PageArgs : add_link(s, n)
    \/ \E s \in SessionIds : add_file_attachment_upload_begin(s, 0)
    \/ \E k \in Parked, f \in AttachFiles :
           k <= Len(inflight) /\ add_file_attachment_upload_resume(k, f)

SpecNav == Init /\ [][NextNav]_vars

\* Reading: the read endpoints and the download beside a rotation and
\* bookmarks, on one-page documents uploaded side by side
\* (two uploads of one file name share the path upload_<filename>).
NextRead ==
    \/ \E f \in LifeUploads : upload_document(f)
    \/ \E s \in SessionIds : delete_document(s)
    \/ \E s \in SessionIds : get_document_info(s)
    \/ \E s \in SessionIds : get_page_count(s)
    \/ \E s \in SessionIds : get_toc(s)
    \/ \E s \in SessionIds : download_document(s)
    \/ \E s \in SessionIds : rotate_page(s, 0, 90)
    \/ \E s \in SessionIds : add_bookmark(s, 1, "A", 1)

SpecRead == Init /\ [][NextRead]_vars

\* Duplication: documents of one and of three pages, duplicated up to
\* MaxDupPages pages.
MaxDupPages == 4
DupPageArgs == -1..MaxDupPages
DupInsertAt == -1..(MaxDupPages + 1)
DupInsertAtArgs == {{}} \cup { {k} : k \in DupInsertAt }

NextDup ==
    \/ \E f \in
           { Upload("a.pdf", "ok", <<TextPage(1)>>),
             Upload("b.pdf", "ok", <<TextPage(1), TextPage(2), TextPage(3)>>) } :
           upload_document(f)
    \/ \E s \in SessionIds, n \in DupPageArgs, a \in DupInsertAtArgs :
           Len(handle[s].pages) < MaxDupPages /\ duplicate_page(s, n, a)

SpecDup == Init /\ [][NextDup]_vars

\* Cropping: one-page documents side by side, cropped by margins of every
\* sign.
Margins == -1..PageSize

NextCrop ==
    \/ \E f \in LifeUploads : upload_document(f)
    \/ \E s \in SessionIds, n \in {-1, 0}, l, t, r, b \in Margins :
           crop_page(s, n, l, t, r, b)

SpecCrop == Init /\ [][NextCrop]_vars

\* Text replacement: documents whose spans are set in built-in fonts, in
\* fonts of the substitution table and in a font unknown to both.
TextUploads ==
    { Upload("a.pdf", "ok",
             << [TextPage(1) EXCEPT !.text =
                    << Span("old", <<"A", "r", "i", "a", "l">>),
                       Span("keep", BUILTIN_FONTS[4]),
                       Span("old", BUILTIN_FONTS[6]) >>] >>),
      Upload("b.pdf", "ok",
             << [TextPage(1) EXCEPT !.text = << Span("old", <<"U", "n", "k", "n", "o", "w", "n", "F", "o", "n", "t">>) >>],
                [TextPage(2) EXCEPT !.text =
                    << Span("keep", <<"C", "o", "u", "r", "i", "e", "r", " ", "N", "e", "w">>),
                       Span("old", BUILTIN_FONTS[11]) >>] >>) }
MaxMatches == 2
MaxSpans == 3

\* One session; a text box is added to a page with fewer than MaxSpans spans.
NextText ==
    \/ \E f \in TextUploads : next_id = 1 /\ upload_document(f)
    \/ \E s \in SessionIds, n \in -1..MaxPages, st \in {"", "old", "absent"},
          f \in {"none", "search_for", "apply_redactions", "insert_text"},
          k \in 1..MaxMatches, b \in BOOLEAN :
           /\ (f = "none" => k = 1) /\ (f # "none" => b)
           /\ replace_text(s, n, st, "new", [fault |-> f, at |-> k, sampled |-> b])
    \/ \E s \in SessionIds, n \in -1..MaxPages,
          f \in {"none", "draw_rect", "insert_text"} :
           /\ ValidPage(handle[s], n) => Len(handle[s].pages[n + 1].text) < MaxSpans
           /\ insert_textbox_with_border(s, n, "new", f)
    \/ \E s \in SessionIds, n \in -1..MaxPages, f \in {"none", "clean_contents"} :
           optimize_page(s, n, f)

SpecText == Init /\ [][NextText]_vars

\* Two sessions and the editors of the text and image features.
NextHandles ==
    \/ \E f \in LifeUploads : upload_document(f)
    \/ \E s \in SessionIds : delete_document(s)
    \/ \E s \in SessionIds, f \in {"none", "save"} : optimize_document(s, f)
    \/ \E s \in SessionIds, n \in 0..1, f \in {"none", "clean_contents"} :
           optimize_page(s, n, f)
    \/ \E s \in SessionIds, f \in {"none", "draw_rect", "insert_text"} :
           /\ ValidPage(handle[s], 0) => Len(handle[s].pages[1].text) < MaxSpans
           /\ insert_textbox_with_border(s, 0, "new", f)
    \/ Tick
    \/ \E s \in SessionIds : reaper_expire(s)
    \/ \E s \in SessionIds : reaper_destroy(s)

SpecHandles == Init /\ [][NextHandles]_vars

\* Rectangles of width and height 4 or 8 on and below the text of a page;
\* pictures of width and height 1 or 2, an unreadable file and a missing one.
ImageRects == { Rect(0, y, w, y + h) : y \in {0, 4}, w \in {4, 8}, h \in {4, 8} }
Images == { Image(w, h) : w \in {1, 2}, h \in {1, 2} }
             \cup {[Image(1, 1) EXCEPT !.readable = FALSE], NoImage}

NextImage ==
    \/ \E f \in TextUploads : next_id = 1 /\ upload_document(f)
    \/ \E s \in SessionIds, n \in {0, MaxPages}, old_rect \in ImageRects,
          image \in Images, maintain_aspect \in BOOLEAN :
           replace_image(s, n, old_rect, image, maintain_aspect)

SpecImage == Init /\ [][NextImage]_vars

\* Paths of one to three grid points without a diagonal segment; a path may
\* repeat a point.
MaxPoints == 3
GridPoints == { <<x, y>> : x \in 0..1, y \in 0..1 }
GridPaths == UNION { [1..k -> GridPoints] : k \in 1..MaxPoints }
HighlightPaths ==
    { ps \in GridPaths : \A i \in 1..(Len(ps) - 1) :
                          ps[i][1] = ps[i + 1][1] \/ ps[i][2] = ps[i + 1][2] }

NextAnnot ==
    \/ \E f \in LifeUploads : next_id = 1 /\ upload_document(f)
    \/ \E s \in SessionIds, n \in 0..1, points \in HighlightPaths,
          fault \in {"none", "add_highlight_annot", "add_ink_annot"} :
           /\ ValidPage(handle[s], n) => RoomForEdit(handle[s], n)
           /\ add_freehand_highlight(s, n, points, 4, fault)

SpecAnnot == Init /\ [][NextAnnot]_vars

\* ------------------------------------------------------------- properties
\* The cached count of s agrees with the handle of s.
PageCountAgrees(s) == page_count[s] = Len(handle[s].pages)

\* The storage file of s holds the serialization of the handle of s.
Persisted(s) == files[storage_path[s]] = Bytes(handle[s])

\* The requests parked on session s.
InFlight(s) == {k \in 1..Len(inflight) : inflight[k].sid = s}

\* A step in which a request of a page-count-changing endpoint on session s
\* completed with success.
PageOpSucceeded(s) ==
    \/ \E n \in PageArgs :
          \/ delete_page_status(s, n) = 200 /\ delete_page(s, n)
          \/ \E a \in InsertAtArgs :
                duplicate_page_status(s, n, a) = 200 /\ duplicate_page(s, n, a)
    \/ remove_blank_pages_status(s) = 200 /\ remove_blank_pages(s)
    \/ \E k \in InFlight(s), f \in InsertFiles, e \in BOOLEAN :
          insert_pages_status(k, f, e) = 200 /\ insert_pages_resume(k, f, e)

\* A step in which a request of any mutating endpoint on s completed with
\* success.
MutationSucceeded(s) ==
    \/ PageOpSucceeded(s)
    \/ \E n \in PageArgs : rotate_page_status(s, n, 90) = 200 /\ rotate_page(s, n, 90)
    \/ \E k \in InFlight(s), f \in AttachFiles :
          /\ add_file_attachment_upload_status(k, f) = 200
          /\ add_file_attachment_upload_resume(k, f)

\* Every endpoint answers a request on session s with 404.
Answers404(s) ==
    /\ ~SessionFound(s)
    /\ get_document_info_status(s) = 404
    /\ delete_document_status(s) = 404
    /\ download_document_status(s) = 404
    /\ remove_blank_pages_status(s) = 404
    /\ \A n \in PageArgs :
          /\ delete_page_status(s, n) = 404
          /\ rotate_page_status(s, n, 90) = 404
          /\ \A a \in InsertAtArgs : duplicate_page_status(s, n, a) = 404

\* C1: once delete_session(id) has succeeded, every later lookup of id fails
\* with NotFoundError (404) in every endpoint, whatever happened in between
\* on this or on other sessions.
C1_DeletedStaysNotFound == \A s \in deleted : Answers404(s)

\* A session was deleted, and a session created after it is being edited.
C1_Witness ==
    \E s \in deleted, u \in SessionIds :
        u > s /\ state[u] = "Active" /\ handle[u].pages[1].rot = 90

C3_SuccessMeansPersisted ==
    [][vars' # vars =>
        \A s \in SessionIds : MutationSucceeded(s) => Persisted(s)']_vars

\* A rotation and a file attachment were made and are in the storage file.
C3_Witness ==
    \E s \in SessionIds :
        /\ state[s] = "Active"
        /\ \E i \in 1..Len(handle[s].pages) :
              handle[s].pages[i].rot = 90 /\ handle[s].pages[i].annots = 1
        /\ Persisted(s)

\* C4: for any single session at most one mutating operation is in flight:
\* no two requests are suspended on the same session between their lookup
\* and their mutation, and no request mutates the handle of a session while
\* another request is suspended on it.
C4_OneMutationInFlight ==
    /\ [](\A s \in SessionIds : Cardinality(InFlight(s)) <= 1)
    /\ [][\A s \in SessionIds :
            (handle'[s] # handle[s] /\ inflight' = inflight) => InFlight(s) = {}]_vars

\* C5: a session is never destroyed while a request that obtained it from
\* get_session is still operating on it: the handle of every suspended
\* request is open.
C5_NoDestroyUnderRequest ==
    \A k \in 1..Len(inflight) : ~handle[inflight[k].sid].closed

\* No request on session s can be answered with success: neither a new one
\* nor one that resumes from its upload read.
NoSuccess(s) ==
    /\ get_document_info_status(s) # 200
    /\ delete_document_status(s) # 200
    /\ download_document_status(s) # 200
    /\ remove_blank_pages_status(s) # 200
    /\ \A n \in PageArgs :
          /\ delete_page_status(s, n) # 200
          /\ rotate_page_status(s, n, 90) # 200
          /\ \A a \in InsertAtArgs : duplicate_page_status(s, n, a) # 200
    /\ \A k \in InFlight(s) :
          /\ inflight[k].kind = "insert_pages" =>
                \A f \in InsertFiles, e \in BOOLEAN : insert_pages_status(k, f, e) # 200
          /\ inflight[k].kind = "add_file_attachment" =>
                \A f \in AttachFiles : add_file_attachment_upload_status(k, f) # 200

\* The transitions of a session's state.
Transition(a, b) ==
    \/ a = b
    \/ a = "Unborn" /\ b = "Active"
    \/ a = "Active" /\ b \in {"Expiring", "Destroyed"}
    \/ a = "Expiring" /\ b = "Destroyed"

\* C6: a session's state only moves Active -> Expiring -> Destroyed or
\* Active -> Destroyed; Destroyed is terminal, Active is never re-entered,
\* and no operation succeeds against a Destroyed session.
C6_Lifecycle ==
    /\ [](\A s \in SessionIds : state[s] = "Destroyed" => NoSuccess(s))
    /\ [][\A s \in SessionIds : Transition(state[s], state'[s])]_vars

\* A session destroyed by the reaper with a request still suspended on it,
\* beside a session destroyed by a DELETE request.
C6_Witness ==
    \E s, u \in SessionIds :
        /\ state[s] = "Destroyed" /\ s \notin deleted /\ InFlight(s) # {}
        /\ state[u] = "Destroyed" /\ u \in deleted

\* C7: the reaper expires a session only when the time since its last
\* successful lookup exceeds the idle threshold, and every successful lookup,
\* read-only ones included, restarts that time.
C7_IdleExpiry ==
    [][\A s \in SessionIds :
        /\ (state[s] = "Active" /\ state'[s] = "Expiring")
              => now - last_accessed[s] > IdleThreshold
        /\ (get_document_info_status(s) = 200 /\ get_document_info(s))
              => now' - last_accessed'[s] = 0
      ]_vars

\* At the end of the clock, a session that was never looked up is expiring
\* while an older one, looked up in between, is still active.
C7_Witness ==
    \E s, u \in SessionIds :
        /\ u < s
        /\ state[s] = "Expiring"
        /\ state[u] = "Active" /\ last_accessed[u] > last_accessed[s]

\* The entries of toc_data whose page is a page of d, numbered from 1.
OnAPage(d, toc_data) == SelectSeq(toc_data, LAMBDA e : e[3] \in 1..Len(d.pages))

\* What the operations do with a page number, in the current state of
\* session s: the status answered and the handle left.
PageNumbersByConvention(s) ==
    LET d == handle[s]
    IN  /\ \A n \in PageArgs :
              (n < 0 \/ n >= Len(d.pages))
                  => /\ add_link_status(s, n) = 400
                     /\ NavigationManager_add_link(d, n).doc = d
        /\ \A l \in Levels, t \in Titles, p \in TocPages :
              /\ (p < 1 \/ p > Len(d.pages))
                    => /\ add_bookmark_status(s, l, t, p) = 400
                       /\ NavigationManager_add_bookmark(d, l, t, p).doc = d
              /\ (p >= 1 /\ p = Len(d.pages) /\ EngineAcceptsToc(Append(d.toc, <<l, t, p>>)))
                    => add_bookmark_status(s, l, t, p) = 200
        /\ \A i \in 0..(Len(d.toc) - 1), t \in OptionalTitles, p \in TocPages :
              /\ (p < 1 \/ p > Len(d.pages))
                    => /\ update_bookmark_status(s, i, t, {p}) = 400
                       /\ NavigationManager_update_bookmark(d, i, t, {p}).doc = d
              /\ (p >= 1 /\ p = Len(d.pages)) => update_bookmark_status(s, i, t, {p}) = 200
        /\ \A toc_data \in TocData :
              EngineAcceptsToc(OnAPage(d, toc_data))
                  => /\ set_toc_status(s, toc_data) = 200
                     /\ NavigationManager_set_toc(d, toc_data).doc.toc = OnAPage(d, toc_data)

C9_AddThenDeleteRestores ==
    /\ round_trip.phase = "deleted" => round_trip.after = round_trip.before
    /\ \A s \in SessionIds : SessionFound(s) =>
          \A l \in Levels, t \in Titles, p \in TocPages :
              LET added == NavigationManager_add_bookmark(handle[s], l, t, p)
                  removed == NavigationManager_delete_bookmark(added.doc, added.index)
              IN  added.ok => (removed.ok /\ removed.doc.toc = handle[s].toc)

\* A bookmark was added to a TOC that had an entry and then deleted by the
\* index add_bookmark returned.
C9_Witness ==
    round_trip.phase = "deleted" /\ Len(round_trip.before) >= 1

\* Each bookmark operation, applied to the TOC of s as it is now, gives the
\* whole TOC with exactly its own change.
WholeListOps(s) ==
    LET d == handle[s]
        toc == d.toc
    IN  /\ \A l \in Levels, t \in Titles, p \in TocPages :
              LET r == NavigationManager_add_bookmark(d, l, t, p)
              IN  r.ok => r.doc.toc = Append(toc, <<l, t, p>>)
        /\ \A i \in BookmarkIndices :
              LET r == NavigationManager_delete_bookmark(d, i)
              IN  r.ok => r.doc.toc = RemoveAt(toc, i + 1)
        /\ \A i \in BookmarkIndices, t \in OptionalTitles, p \in OptionalPages :
              LET r == NavigationManager_update_bookmark(d, i, t, p)
              IN  r.ok => /\ Len(r.doc.toc) = Len(toc)
                          /\ \A j \in 1..Len(toc) : j # i + 1 => r.doc.toc[j] = toc[j]
                          /\ r.doc.toc[i + 1][1] = toc[i + 1][1]
                          /\ t # {} => r.doc.toc[i + 1][2] \in t
                          /\ p # {} => r.doc.toc[i + 1][3] \in p
        /\ \A l \in 0..2 :
              LET r == NavigationManager_create_toc_from_headers(d, l)
              IN  r.ok => SubSeq(r.doc.toc, 1, Len(toc)) = toc
        /\ \A toc_data \in TocData :
              LET r == NavigationManager_set_toc(d, toc_data)
              IN  r.ok => r.doc.toc = OnAPage(d, toc_data)

\* C10: no bookmark mutation loses an update.  Each request is applied as a
\* whole to the TOC the request before it left, an added bookmark keeps every
\* entry that was there, and no request writes the TOC after a suspension:
\* the TOC after two concurrent requests is the TOC of running them one
\* after the other in the order the event loop took them.
C10_NoLostBookmarkUpdate ==
    /\ [](\A s \in SessionIds : SessionFound(s) => WholeListOps(s))
    /\ [](round_trip.phase # "none" =>
            /\ Len(round_trip.mid) = Len(round_trip.before) + 1
            /\ SubSeq(round_trip.mid, 1, Len(round_trip.before)) = round_trip.before)
    /\ [][\A s \in SessionIds :
            handle'[s].toc # handle[s].toc => inflight' = inflight]_vars

\* Two bookmarks were added one after the other while another request on
\* the session was suspended, and both are in the TOC.
C10_Witness ==
    \E s \in SessionIds :
        /\ state[s] = "Active"
        /\ InFlight(s) # {}
        /\ Len(handle[s].toc) = 2
        /\ handle[s].toc[1] # handle[s].toc[2]

\* C11: for a single session, mutations take effect on the handle in the
\* order in which their requests were accepted: the request that mutates the
\* handle of a session is the oldest accepted request still pending on it.
C11_AcceptanceOrder ==
    [][\A s \in SessionIds :
        (handle'[s] # handle[s] /\ ~handle[s].closed /\ ~handle'[s].closed) =>
            IF inflight' = inflight
            THEN InFlight(s) = {}
            ELSE \E k \in InFlight(s) :
                    /\ inflight' = RemoveAt(inflight, k)
                    /\ \A j \in InFlight(s) : j >= k
      ]_vars

\* C12: upload_document answers 400 to a file name without the .pdf
\* extension, 400 to an empty file, 413 to a file above the maximum size and
\* 400 to bytes the engine cannot parse (the checks are made in this order),
\* and a request answered so registers no session in the store.
C12_UploadRejections ==
    /\ [](\A f \in Uploads :
            /\ f.name \notin PdfNames => upload_document_status(f) = 400
            /\ f.size = "empty" => upload_document_status(f) = 400
            /\ (f.name \in PdfNames /\ f.size = "big") => upload_document_status(f) = 413
            /\ (f.name \in PdfNames /\ f.size = "ok" /\ f.pages = <<>>)
                  => upload_document_status(f) = 400)
    /\ [][vars' # vars =>
            \A f \in Uploads :
                (upload_document_status(f) \in {400, 413} /\ upload_document(f))
                    => /\ state' = state
                       /\ handle' = handle
                       /\ page_count' = page_count
                       /\ storage_path' = storage_path
                       /\ next_id' = next_id]_vars

\* An oversize upload was answered with 413 and the store is still empty.
C12_Witness ==
    /\ upload_status = 413
    /\ next_id = 1
    /\ \A s \in SessionIds : state[s] = "Unborn"

\* C13: whenever an upload or a page insert fails after its temp file was
\* written, whatever the error, the temp file is gone when the error is
\* answered and no session was registered.
C13_TempFilesCleaned ==
    [][vars' # vars =>
        /\ \A f \in Uploads :
              (/\ f.name \in PdfNames /\ f.size = "ok"
               /\ upload_document_status(f) # 200
               /\ upload_document(f))
                  => /\ ~files'[f.name].exists
                     /\ state' = state
                     /\ next_id' = next_id
        /\ \A k \in 1..Len(inflight), file \in InsertFiles, e \in BOOLEAN :
              (/\ inflight[k].kind = "insert_pages"
               /\ insert_pages_status(k, file, e) # 200
               /\ insert_pages_resume(k, file, e))
                  => InsertPath(inflight[k].sid, inflight[k].name) \notin temp_files'
      ]_vars

\* The effects of the mutations on session s that are in its handle stay in
\* it for as long as the session is active.
EffectsKept(s) ==
    (state[s] = "Active" /\ state'[s] = "Active") =>
        /\ Len(handle'[s].pages) = Len(handle[s].pages)
        /\ \A i \in 1..Len(handle[s].pages) :
              /\ handle[s].pages[i].rot = 90 => handle'[s].pages[i].rot = 90
              /\ handle'[s].pages[i].annots >= handle[s].pages[i].annots
        /\ Len(handle'[s].toc) >= Len(handle[s].toc)
        /\ SubSeq(handle'[s].toc, 1, Len(handle[s].toc)) = handle[s].toc

C16_DuplicatePlacement ==
    /\ [](\A s \in SessionIds : SessionFound(s) =>
            LET d == handle[s]
                len == Len(d.pages)
            IN  \A n \in 0..(len - 1) :
                    /\ DuplicateTarget(d, n, {}) = n + 1
                    /\ \A k \in DupInsertAt :
                          DuplicateTarget(d, n, {k}) = IF k >= 0 /\ k <= len THEN k ELSE len
                    /\ \A a \in DupInsertAtArgs :
                          LET t == DuplicateTarget(d, n, a)
                              d2 == Duplicated(d, n, a)
                          IN  /\ duplicate_page_status(s, n, a) = 200
                              /\ Len(d2.pages) = len + 1
                              /\ d2.pages[t + 1] = d.pages[n + 1]
                              /\ RemoveAt(d2.pages, t + 1) = d.pages
                              /\ duplicate_page_data(s, n, a) =
                                     [new_page_count |-> len + 1, inserted_at |-> t])
    /\ [][vars' # vars =>
            \A s \in SessionIds, n \in DupPageArgs, a \in DupInsertAtArgs :
                (duplicate_page_status(s, n, a) = 200 /\ duplicate_page(s, n, a))
                    => /\ handle'[s] = Duplicated(handle[s], n, a)
                       /\ page_count'[s] = page_count[s] + 1
                       /\ page_count'[s] = duplicate_page_data(s, n, a).new_page_count]_vars

\* Page 0 of a three-page document was duplicated: four pages, the copy at
\* position 1.
C16_Witness ==
    \E s \in SessionIds :
        /\ handle[s].pages = <<TextPage(1), TextPage(1), TextPage(2), TextPage(3)>>
        /\ page_count[s] = 4

\* C17: crop_page whose margins leave a page of non-positive width or
\* height is answered with 400, and the crop box, the handle and the storage
\* file are then as they were: no step that changes a handle, a file or a
\* cached page count is a crop_page answered with 400.
C17_CropTooLargeRejected ==
    /\ [](\A s \in SessionIds : SessionFound(s) =>
            \A n \in 0..(Len(handle[s].pages) - 1), l, t, r, b \in Margins :
                LET box == handle[s].pages[n + 1].cropbox
                    width == (box.x1 - box.x0) - l - r
                    height == (box.y1 - box.y0) - t - b
                IN  (width <= 0 \/ height <= 0) => crop_page_status(s, n, l, t, r, b) = 400)
    /\ [][(handle' # handle \/ files' # files \/ page_count' # page_count) =>
            \A s \in SessionIds, n \in {-1, 0}, l, t, r, b \in Margins :
                crop_page_status(s, n, l, t, r, b) = 400 => ~crop_page(s, n, l, t, r, b)]_vars

\* A crop was refused for its margins on a session that holds a cropped and
\* persisted page.
C17_Witness ==
    /\ rejected = "crop_page"
    /\ \E s \in SessionIds :
          /\ state[s] = "Active"
          /\ handle[s].pages[1].cropbox # MediaBox
          /\ Persisted(s)

\* C18: replace_text_preserve_font answers a page on which the search text
\* occurs with the count of the replacements it made and the list of their
\* rectangles, one rectangle of a match per counted replacement; on a page
\* on which the search text does not occur it returns count 0, raises
\* nothing and leaves the page as it was.
C18_ReplaceResult ==
    edit_result.op = "replace_text" =>
        /\ (edit_result.raised = "none" /\ edit_result.matches # <<>>) =>
               /\ edit_result.has_rects
               /\ Len(edit_result.rects) = edit_result.count
               /\ edit_result.count <= Len(edit_result.matches)
               /\ \A j \in 1..Len(edit_result.rects) :
                      \E k \in 1..Len(edit_result.matches) :
                          edit_result.rects[j] = SpanRect(edit_result.matches[k])
               /\ \A j, k \in 1..Len(edit_result.rects) :
                      edit_result.rects[j] = edit_result.rects[k] => j = k
               /\ edit_result.fault = "none" =>
                      edit_result.count = Len(edit_result.matches)
        /\ (/\ edit_result.valid_page
            /\ edit_result.search_text # ""
            /\ edit_result.fault # "search_for"
            /\ edit_result.matches = <<>>) =>
               /\ edit_result.raised = "none"
               /\ edit_result.status = 200
               /\ edit_result.count = 0
               /\ edit_result.rects = <<>>
               /\ ~edit_result.mutated

\* A replacement that found nothing on a page whose two occurrences an
\* earlier replacement had replaced.
C18_Witness ==
    /\ edit_result.op = "replace_text"
    /\ edit_result.search_text = "old"
    /\ edit_result.valid_page
    /\ edit_result.matches = <<>>
    /\ edit_result.count = 0
    /\ \E s \in SessionIds :
           /\ state[s] = "Active"
           /\ edit_result.sid = s
           /\ Cardinality({i \in 1..Len(handle[s].pages[edit_result.page + 1].text) :
                  handle[s].pages[edit_result.page + 1].text[i].word = "new"}) = 2

\* C19: find_best_match_font returns a built-in font for every name, and
\* for the exact name of a built-in font it returns that name.
C19_BuiltinNamesMapToThemselves ==
    \A j \in 1..Len(edit_result.fonts) :
        LET font_name == edit_result.fonts[j][1]
            returned == edit_result.fonts[j][2]
        IN  /\ \E i \in 1..Len(BUILTIN_FONTS) : returned = BUILTIN_FONTS[i]
            /\ (\E i \in 1..Len(BUILTIN_FONTS) : font_name = BUILTIN_FONTS[i]) =>
                   returned = font_name

\* C20: an exception of the engine inside an editor operation leaves the
\* operation as InvalidOperationError and is answered with 400: it is
\* neither answered with 500 nor turned into a normal result.
C20_EngineExceptionsBecomeInvalidOperation ==
    edit_result.fault # "none" =>
        /\ edit_result.raised = "InvalidOperationError"
        /\ edit_result.status = 400

\* C21: an editor operation in which an engine call failed after the handle
\* was changed does not return normally: an error reaches the caller.
C21_NoSilentHalfMutation ==
    (edit_result.fault # "none" /\ edit_result.mutated) =>
        (edit_result.raised # "none" /\ edit_result.status # 200)

\* C22: the step of the shutdown hook leaves no live session, and every
\* session that was live before it, whatever its last access, has its
\* handle closed and its storage file removed; nothing is live afterwards.
C22_ShutdownTearsDownEverySession ==
    /\ [](shutdown => NoneLive /\ \A s \in SessionIds : handle[s].closed)
    /\ [][(~shutdown /\ shutdown') =>
             \A s \in SessionIds :
                 Live(s) => /\ state'[s] = "Destroyed"
                            /\ handle'[s].closed
                            /\ ~files'[storage_path[s]].exists]_vars

\* A session that was never idle and never deleted by a request is gone
\* after the hook.
C22_Witness ==
    /\ shutdown
    /\ now = 0
    /\ \E s \in SessionIds : state[s] = "Destroyed" /\ s \notin deleted

\* C23: every live session has an open handle that no other live session
\* has, and a step of a feature editor, the processor built on demand by
\* optimize_document included, leaves every handle the same object in the
\* same open or closed condition.
C23_OneOpenHandlePerSession ==
    /\ [](\A s \in SessionIds :
             Live(s) => /\ ~handle[s].closed
                        /\ \A u \in SessionIds :
                               (Live(u) /\ u # s) => handle[u].hid # handle[s].hid)
    /\ [][edit_result' # edit_result =>
             \A s \in SessionIds : /\ handle'[s].hid = handle[s].hid
                                    /\ handle'[s].closed = handle[s].closed]_vars

\* optimize_document has answered 200 for one of two live sessions.
C23_Witness ==
    /\ edit_result.op = "optimize_document"
    /\ edit_result.status = 200
    /\ OptimizedPath(edit_result.sid) \in temp_files
    /\ \A s \in SessionIds : Live(s)

\* C24: for every client address and every interval of window_seconds, the
\* requests of the address let through in the interval are at most
\* requests_limit; a request answered 429 is not recorded: the step that
\* answers it only drops the timestamps that left the window.
C24_RateLimit ==
    /\ [](\A ip \in ClientIps : \A t \in 0..MaxClock :
             Cardinality({k \in 1..Len(admitted[ip]) :
                 t <= admitted[ip][k] /\ admitted[ip][k] < t + window_seconds})
                 <= requests_limit)
    /\ [][now' = now /\ http_response'.status = 429 /\ ~http_response'.recorded =>
             /\ admitted' = admitted
             /\ \A ip \in ClientIps :
                    requests'[ip] = IF ip = http_response'.ip
                                    THEN cleanup_old_requests(requests[ip], now)
                                    ELSE requests[ip]]_vars

\* An address at its limit was refused, and was let through again once its
\* oldest request had left the window.
C24_Witness ==
    \E ip \in ClientIps :
        /\ Len(admitted[ip]) > requests_limit
        /\ http_response.status = 429
        /\ http_response.ip = ip

\* C25: every response that leaves the server, a 429 of the rate limiter
\* included, carries every header of get_security_headers.
C25_EveryResponseHasSecurityHeaders ==
    http_response.status # 0 => get_security_headers \subseteq http_response.headers

\* C26: a replacement that keeps the aspect ratio goes into a rectangle of
\* the picture's aspect ratio that lies inside the old rectangle and is
\* centred in it; a replacement that does not goes into the old rectangle.
C26_ReplacementFitsOldRect ==
    (edit_result.op = "replace_image" /\ edit_result.raised = "none") =>
        LET r == edit_result.rects[1]
            o == edit_result.old_rect
            img == edit_result.image
        IN  /\ ~edit_result.maintain_aspect => r = o
            /\ (edit_result.maintain_aspect /\ img.readable) =>
                   /\ (r.x1 - r.x0) * img.height = img.width * (r.y1 - r.y0)
                   /\ o.x0 <= r.x0 /\ r.x1 <= o.x1
                   /\ o.y0 <= r.y0 /\ r.y1 <= o.y1
                   /\ r.x0 - o.x0 = o.x1 - r.x1
                   /\ r.y0 - o.y0 = o.y1 - r.y1

\* C27: add_freehand_highlight builds a quad for exactly the segments whose
\* endpoints differ, none for a segment of length zero, and divides by no
\* zero.
C27_ZeroLengthSegmentsSkipped ==
    (edit_result.op = "add_freehand_highlight" /\ edit_result.raised = "none") =>
        /\ Len(edit_result.quads) =
              Cardinality({i \in 1..(Len(edit_result.points) - 1) :
                              edit_result.points[i] # edit_result.points[i + 1]})
        /\ \A i \in 1..Len(edit_result.divisors) :
               \A j \in 1..Len(edit_result.divisors[i]) : edit_result.divisors[i][j] # 0

\* C28: remove_blank_pages leaves exactly the pages with content, in their
\* order, sets the cached count to the original count minus the pages
\* removed, and the storage file holds the result, also when every page was
\* blank.
C28_BlankPagesRemovedAndPersisted ==
    [][\A s \in SessionIds :
         (SessionFound(s) /\ ~handle[s].closed /\ remove_blank_pages(s)) =>
             /\ handle'[s].pages = SelectSeq(handle[s].pages, LAMBDA pg : ~pg.blank)
             /\ page_count'[s] = Len(handle[s].pages)
                    - Cardinality({i \in 1..Len(handle[s].pages) : handle[s].pages[i].blank})
             /\ files'[storage_path[s]] = Bytes(handle'[s])]_vars

\* C29: no two live sessions have one storage path, whatever the names of
\* the uploaded files.
C29_NoSharedStoragePath ==
    \A s, u \in SessionIds :
        (s # u /\ Live(s) /\ Live(u)) => storage_path[s] # storage_path[u]

\* C30: while insert_pages_from_file waits for the bytes of its upload, the
\* position it clamped stays within 0..len(doc) of the session's handle.
C30_ClampedPositionStaysValid ==
    \A k \in 1..Len(inflight) :
        inflight[k].kind = "insert_pages" =>
            /\ inflight[k].arg >= 0
            /\ inflight[k].arg <= Len(handle[inflight[k].sid].pages)

====
